---- MODULE Spec2Model ----
(***************************************************************************)
(* Idempotency Shield: the ProcessPayment / MarkComplete / DeleteExpired   *)
(* protocol over the idempotency_keys table, as implemented by             *)
(* internal/service/idempotency.go and internal/storage/repository.go.     *)
(*                                                                         *)
(* Every SQL statement is one atomic step (PostgreSQL executes a single    *)
(* statement against one row atomically; the upsert and its COMMIT are one *)
(* step because the transaction holds the row lock until it commits).      *)
(* The Go code between two statements runs in separate steps, so other     *)
(* callers and the clock can move in between.                              *)
(***************************************************************************)
EXTENDS Integers, Sequences, FiniteSets, TLC

\* ------------------------------------------------------------------ bounds
MaxCalls     == 2      \* ProcessPayment calls started in one behaviour
MaxCompletes == 1      \* MarkComplete calls started in one behaviour
MaxRacing    == 2      \* MarkComplete calls started in a behaviour of SpecComplete
MaxTime      == 1      \* the clock runs 0..MaxTime
MaxAttempts  == 4      \* highest attempt_count of the tables the reporter reads
MaxEvents    == 5      \* Record* calls on the monitor in one behaviour
TTL          == 1      \* expiryTTL of the service, in clock ticks

Procs == {1, 2}        \* concurrent ProcessPayment callers (goroutines / replicas)
Completers == {1, 2}   \* concurrent MarkComplete callers

\* --------------------------------------------------------------- constants
Keys        == {"A"}
\* Two keys with the same 64-bit FNV-1a digest, 0x0f0bd79a0e382310.
KeyX        == "c69321e050cf55c7"
KeyY        == "a88f38785ea4cb00"
AllKeys     == Keys \cup {KeyX, KeyY}
NoTime      == << >>   \* SQL NULL in completed_at / nil *time.Time
SomeTime(t) == << t >> \* a non-NULL completed_at
NoBody      == << >>   \* SQL NULL in response_body / nil *json.RawMessage

StatusProcessing == "processing"
StatusSucceeded  == "succeeded"
StatusFailed     == "failed"

\* Request payloads: JSON texts as sequences of characters.
BodyCompact == << "{", "\"", "t", "\"", ":", "1", "}" >>
BodySpaced  == << "{", "\"", "t", "\"", ":", " ", "1", "}" >>

\* ------------------------------------------------------------ pure helpers

\* PaymentRequest.Hash: SHA-256 over "merchant|customer|amount|currency".
\* The digest is taken as injective, so the canonical string stands for it.
Hash(req) ==
    req.merchant_id \o "|" \o req.customer_id \o "|"
        \o ToString(req.amount) \o "|" \o req.currency

\* Variant: validateRequest without the check of the currency.
validateRequestNoCurrency(req) ==
    /\ req.idempotency_key # ""
    /\ req.merchant_id # ""
    /\ req.customer_id # ""
    /\ ~(req.amount < 0)

\* validateRequest: TRUE when the request passes.
validateRequest(req) ==
    /\ req.idempotency_key # ""
    /\ req.merchant_id # ""
    /\ req.customer_id # ""
    /\ ~(req.amount < 0)
    /\ req.currency # ""

\* generatePaymentID: "pay_" followed by the clock reading.
generatePaymentID(t) == "pay_" \o ToString(t)

\* IdempotencyRecord.IsExpired at clock reading t: time.Now().After(ExpiresAt).
IsExpired(rec, t) == t > rec.expires_at

\* Bitwise XOR of two naturals.
RECURSIVE Xor(_, _)
Xor(a, b) ==
    IF a = 0 THEN b
    ELSE IF b = 0 THEN a
    ELSE (((a % 2) + (b % 2)) % 2) + (2 * Xor(a \div 2, b \div 2))

LockWidth     == 65536   \* the low 16 bits of the 64-bit digest are kept
FnvOffsetLow  == 8997    \* 0x2325, low 16 bits of offset basis 0xcbf29ce484222325
FnvPrimeLow   == 435     \* 0x01b3, low 16 bits of prime 0x100000001b3

\* The characters of a key, and their bytes.
KeyChars(key) ==
    CASE key = KeyX -> << "c", "6", "9", "3", "2", "1", "e", "0",
                          "5", "0", "c", "f", "5", "5", "c", "7" >>
      [] key = KeyY -> << "a", "8", "8", "f", "3", "8", "7", "8",
                          "5", "e", "a", "4", "c", "b", "0", "0" >>
      [] OTHER      -> << key >>

HexDigits == << "0", "1", "2", "3", "4", "5", "6", "7", "8", "9" >>
HexLetters == << "a", "b", "c", "d", "e", "f" >>

ByteOf(ch) ==
    IF \E i \in 1..10 : HexDigits[i] = ch
      THEN 47 + (CHOOSE i \in 1..10 : HexDigits[i] = ch)
    ELSE IF \E i \in 1..6 : HexLetters[i] = ch
      THEN 96 + (CHOOSE i \in 1..6 : HexLetters[i] = ch)
    ELSE CASE ch = "A" -> 65 [] ch = "B" -> 66 [] OTHER -> 0

RECURSIVE Fnv1a(_, _)
Fnv1a(h, bytes) ==
    IF bytes = << >> THEN h
    ELSE Fnv1a((Xor(h, Head(bytes)) * FnvPrimeLow) % LockWidth, Tail(bytes))

\* advisoryLockKey: FNV-1a over the key's bytes.  Multiplication modulo 2^64
\* and XOR act on the low bits independently of the high ones, so this is
\* exactly the low 16 bits of the code's int64 lock key.
Fnv1aOfKey(key) ==
    Fnv1a(FnvOffsetLow, [i \in 1..Len(KeyChars(key)) |-> ByteOf(KeyChars(key)[i])])

\* The digests of the model's keys, computed once.
KeyDigests == [k \in AllKeys |-> Fnv1aOfKey(k)]

advisoryLockKey(key) ==
    IF key \in AllKeys THEN KeyDigests[key] ELSE Fnv1aOfKey(key)

\* Variant: pg_advisory_xact_lock grants the identifier whoever holds it.
AdvisoryLockFreeAlways(l, id) == TRUE

\* pg_advisory_xact_lock(id) returns once no other transaction holds id.
AdvisoryLockFree(l, id) == l[id] = 0

\* Variant: a session-level lock, which COMMIT and ROLLBACK do not release.
AdvisoryUnlockNever(l, id) == l

\* COMMIT or ROLLBACK releases the transaction's advisory lock.
AdvisoryUnlock(l, id) == [l EXCEPT ![id] = 0]

\* response_body is a JSONB column: the text handed to MarkComplete is parsed
\* on write and printed back on read.  jsonb output drops white space outside
\* string literals and prints ": " after a member name and ", " between
\* elements.  (The model's payloads are one-member objects, so key ordering
\* and duplicate-key removal do not arise.)
RECURSIVE JsonbPrint(_, _)
JsonbPrint(txt, inString) ==
    IF txt = << >> THEN << >>
    ELSE LET c == Head(txt) rest == Tail(txt) IN
         IF inString
         THEN << c >> \o JsonbPrint(rest, c # "\"")
         ELSE IF c = " " THEN JsonbPrint(rest, FALSE)
         ELSE IF c = ":" \/ c = "," THEN << c, " " >> \o JsonbPrint(rest, FALSE)
         ELSE << c >> \o JsonbPrint(rest, c = "\"")

JsonbRoundTrip(body) == IF body = NoBody THEN NoBody ELSE JsonbPrint(body, FALSE)

\* ------------------------------------------------- the idempotency_keys table
\* A table is a set of rows.  The surrogate id column (BIGSERIAL) is left
\* out: no statement of the repository reads it.

NewRow(req, paymentID, t, expiresAt) ==
    [ idempotency_key |-> req.idempotency_key,
      merchant_id     |-> req.merchant_id,
      customer_id     |-> req.customer_id,
      amount          |-> req.amount,
      currency        |-> req.currency,
      status          |-> StatusProcessing,
      request_hash    |-> Hash(req),
      response_body   |-> NoBody,
      payment_id      |-> paymentID,
      attempt_count   |-> 1,
      first_seen_at   |-> t,
      last_seen_at    |-> t,
      completed_at    |-> NoTime,
      expires_at      |-> expiresAt ]

\* Rows that conflict with an insert of `key` on UNIQUE(idempotency_key).
Conflicting(tbl, key) == {r \in tbl : r.idempotency_key = key}

\* Variant: the DO UPDATE SET arm counts a call twice.
BumpRowTwice(r, t) == [r EXCEPT !.last_seen_at = t, !.attempt_count = @ + 2]

\* The DO UPDATE SET arm of the upsert.
BumpRow(r, t) == [r EXCEPT !.last_seen_at = t, !.attempt_count = @ + 1]

\* Variant: the DO UPDATE SET arm leaves attempt_count alone.
UpsertTableNoCount(tbl, req, paymentID, t, expiresAt) ==
    IF Conflicting(tbl, req.idempotency_key) = {}
    THEN tbl \cup {NewRow(req, paymentID, t, expiresAt)}
    ELSE {IF r.idempotency_key = req.idempotency_key
            THEN [r EXCEPT !.last_seen_at = t] ELSE r
            : r \in tbl}

\* Variant: the DO UPDATE SET arm also takes request_hash from the new request.
UpsertTableRehash(tbl, req, paymentID, t, expiresAt) ==
    IF Conflicting(tbl, req.idempotency_key) = {}
    THEN tbl \cup {NewRow(req, paymentID, t, expiresAt)}
    ELSE {IF r.idempotency_key = req.idempotency_key
            THEN [BumpRow(r, t) EXCEPT !.request_hash = Hash(req)] ELSE r
            : r \in tbl}

\* Variant: a plain INSERT against a table without UNIQUE(idempotency_key).
UpsertTableNoConflict(tbl, req, paymentID, t, expiresAt) ==
    tbl \cup {NewRow(req, paymentID, t, expiresAt)}

\* Variant: the DO UPDATE SET arm also takes the payment id and the expiry of
\* the new call.
UpsertTableRenew(tbl, req, paymentID, t, expiresAt) ==
    IF Conflicting(tbl, req.idempotency_key) = {}
    THEN tbl \cup {NewRow(req, paymentID, t, expiresAt)}
    ELSE {IF r.idempotency_key = req.idempotency_key
            THEN [BumpRow(r, t) EXCEPT !.payment_id = paymentID, !.expires_at = expiresAt]
            ELSE r
            : r \in tbl}

\* INSERT ... ON CONFLICT (idempotency_key) DO UPDATE SET ... of InsertOrGet.
UpsertTable(tbl, req, paymentID, t, expiresAt) ==
    IF Conflicting(tbl, req.idempotency_key) = {}
    THEN tbl \cup {NewRow(req, paymentID, t, expiresAt)}
    ELSE {IF r.idempotency_key = req.idempotency_key THEN BumpRow(r, t) ELSE r
            : r \in tbl}

\* The RETURNING row of the upsert.
Returning(tbl, key) == CHOOSE r \in tbl : r.idempotency_key = key

\* Variant: the UPDATE of MarkComplete without AND status = 'processing'.
MarkCompleteMatchesAny(tbl, key) == {r \in tbl : r.idempotency_key = key}

\* UPDATE ... WHERE idempotency_key = $3 AND status = 'processing' of MarkComplete.
MarkCompleteMatches(tbl, key) ==
    {r \in tbl : r.idempotency_key = key /\ r.status = StatusProcessing}

\* Variant: the UPDATE of MarkComplete without SET status = $1.
MarkCompleteTableNoStatus(tbl, key, status, body, t) ==
    {IF r \in MarkCompleteMatches(tbl, key)
       THEN [r EXCEPT !.response_body = JsonbRoundTrip(body),
                      !.completed_at = SomeTime(t)]
       ELSE r
       : r \in tbl}

\* Variant: the UPDATE of MarkComplete finds its row by the key's lock
\* identifier.
MarkCompleteTableByLock(tbl, key, status, body, t) ==
    {IF advisoryLockKey(r.idempotency_key) = advisoryLockKey(key)
          /\ r.status = StatusProcessing
       THEN [r EXCEPT !.status = status,
                      !.response_body = JsonbRoundTrip(body),
                      !.completed_at = SomeTime(t)]
       ELSE r
       : r \in tbl}

MarkCompleteTable(tbl, key, status, body, t) ==
    {IF r \in MarkCompleteMatches(tbl, key)
       THEN [r EXCEPT !.status = status,
                      !.response_body = JsonbRoundTrip(body),
                      !.completed_at = SomeTime(t)]
       ELSE r
       : r \in tbl}

\* Variant: ResetToProcessing also starts attempt_count again.
ResetTableFresh(tbl, key, newPaymentID, expiresAt, t) ==
    {IF r.idempotency_key = key /\ r.status = StatusFailed
       THEN [r EXCEPT !.status = StatusProcessing,
                      !.payment_id = newPaymentID,
                      !.completed_at = NoTime,
                      !.expires_at = expiresAt,
                      !.last_seen_at = t,
                      !.attempt_count = 1]
       ELSE r
       : r \in tbl}

\* Variant: the reset leaves completed_at as the completion set it.
ResetTableKeepCompleted(tbl, key, newPaymentID, expiresAt, t) ==
    {IF r.idempotency_key = key /\ r.status = StatusFailed
       THEN [r EXCEPT !.status = StatusProcessing,
                      !.payment_id = newPaymentID,
                      !.expires_at = expiresAt,
                      !.last_seen_at = t]
       ELSE r
       : r \in tbl}

\* Variant: the reset also refreshes first_seen_at.
ResetTableRefresh(tbl, key, newPaymentID, expiresAt, t) ==
    {IF r.idempotency_key = key /\ r.status = StatusFailed
       THEN [r EXCEPT !.status = StatusProcessing,
                      !.payment_id = newPaymentID,
                      !.completed_at = NoTime,
                      !.expires_at = expiresAt,
                      !.first_seen_at = t,
                      !.last_seen_at = t]
       ELSE r
       : r \in tbl}

\* Variant: the reset without AND status = 'failed'.
ResetTableAny(tbl, key, newPaymentID, expiresAt, t) ==
    {IF r.idempotency_key = key
       THEN [r EXCEPT !.status = StatusProcessing,
                      !.payment_id = newPaymentID,
                      !.completed_at = NoTime,
                      !.expires_at = expiresAt,
                      !.last_seen_at = t]
       ELSE r
       : r \in tbl}

\* UPDATE ... WHERE idempotency_key = $3 AND status = 'failed' of ResetToProcessing.
ResetTable(tbl, key, newPaymentID, expiresAt, t) ==
    {IF r.idempotency_key = key /\ r.status = StatusFailed
       THEN [r EXCEPT !.status = StatusProcessing,
                      !.payment_id = newPaymentID,
                      !.completed_at = NoTime,
                      !.expires_at = expiresAt,
                      !.last_seen_at = t]
       ELSE r
       : r \in tbl}

\* Variant: the DELETE also takes the rows that expire at this instant.
DeleteExpiredTableInclusive(tbl, t) == {r \in tbl : ~(r.expires_at <= t)}

\* res.RowsAffected() of a DELETE that turned table `before` into `after`.
RowsAffected(before, after) == Cardinality(before \ after)

\* DELETE FROM idempotency_keys WHERE expires_at < NOW() of DeleteExpired.
DeleteExpiredTable(tbl, t) == {r \in tbl : ~(r.expires_at < t)}

\* ------------------------------------------------------ ProcessPayment logic

Response(code, kind, paymentID, status, attempts, body, reset) ==
    [ code |-> code, kind |-> kind, payment_id |-> paymentID, status |-> status,
      attempt_count |-> attempts, response_body |-> body, reset |-> reset ]

NoResponse == Response(0, "none", "", "", 0, NoBody, FALSE)

\* Variant: the status switch runs before the expiry test.
DecisionStatusFirst(rec, isNew, req, paymentID, t) ==
    IF isNew
    THEN Response(201, "new", rec.payment_id, StatusProcessing, 1, NoBody, FALSE)
    ELSE IF rec.status = StatusProcessing
    THEN IF rec.request_hash # Hash(req)
         THEN Response(422, "mismatch", "", "", 0, NoBody, FALSE)
         ELSE IF IsExpired(rec, t)
         THEN Response(201, "expired_reused", paymentID, StatusProcessing,
                       rec.attempt_count, NoBody, TRUE)
         ELSE Response(409, "in_progress", rec.payment_id, StatusProcessing,
                       rec.attempt_count, NoBody, FALSE)
    ELSE IF rec.status = StatusSucceeded
    THEN Response(200, "replay", rec.payment_id, StatusSucceeded,
                  rec.attempt_count, rec.response_body, FALSE)
    ELSE IF rec.request_hash # Hash(req)
    THEN Response(422, "mismatch", "", "", 0, NoBody, FALSE)
    ELSE Response(201, IF IsExpired(rec, t) THEN "expired_reused" ELSE "retry",
                  paymentID, StatusProcessing, rec.attempt_count, NoBody, TRUE)

\* Variant: the replay leaves the stored response body out.
DecisionReplayNoBody(rec, isNew, req, paymentID, t) ==
    IF isNew
    THEN Response(201, "new", rec.payment_id, StatusProcessing, 1, NoBody, FALSE)
    ELSE IF IsExpired(rec, t)
    THEN Response(201, "expired_reused", paymentID, StatusProcessing,
                  rec.attempt_count, NoBody, TRUE)
    ELSE IF rec.status = StatusProcessing
    THEN IF rec.request_hash # Hash(req)
         THEN Response(422, "mismatch", "", "", 0, NoBody, FALSE)
         ELSE Response(409, "in_progress", rec.payment_id, StatusProcessing,
                       rec.attempt_count, NoBody, FALSE)
    ELSE IF rec.status = StatusSucceeded
    THEN Response(200, "replay", rec.payment_id, StatusSucceeded,
                  rec.attempt_count, NoBody, FALSE)
    ELSE IF rec.request_hash # Hash(req)
    THEN Response(422, "mismatch", "", "", 0, NoBody, FALSE)
    ELSE Response(201, "retry", paymentID, StatusProcessing,
                  rec.attempt_count, NoBody, TRUE)

\* The branches of ProcessPayment after InsertOrGet returned (rec, isNew), with
\* t the clock reading of rec.IsExpired().  `reset` says that the branch goes
\* on to call ResetToProcessing before it returns.
Decision(rec, isNew, req, paymentID, t) ==
    IF isNew
    THEN Response(201, "new", rec.payment_id, StatusProcessing, 1, NoBody, FALSE)
    ELSE IF IsExpired(rec, t)
    THEN Response(201, "expired_reused", paymentID, StatusProcessing,
                  rec.attempt_count, NoBody, TRUE)
    ELSE IF rec.status = StatusProcessing
    THEN IF rec.request_hash # Hash(req)
         THEN Response(422, "mismatch", "", "", 0, NoBody, FALSE)
         ELSE Response(409, "in_progress", rec.payment_id, StatusProcessing,
                       rec.attempt_count, NoBody, FALSE)
    ELSE IF rec.status = StatusSucceeded
    THEN Response(200, "replay", rec.payment_id, StatusSucceeded,
                  rec.attempt_count, rec.response_body, FALSE)
    ELSE IF rec.request_hash # Hash(req)
    THEN Response(422, "mismatch", "", "", 0, NoBody, FALSE)
    ELSE Response(201, "retry", paymentID, StatusProcessing,
                  rec.attempt_count, NoBody, TRUE)

\* ------------------------------------------------------------------- float64

\* Bits of the significand of a float64, the leading one included.
Precision == 53

\* A positive float64 is [e, m]: m holds Precision bits, the first of them 1,
\* and the value is m[1].m[2]...m[Precision] (binary) times 2^e.  Zero has an
\* empty m.
FloatZero == [e |-> 0, m |-> << >>]

\* Digits handled in one step of the long division and multiplication.
Chunk == 8

RECURSIVE Pow2(_)
Pow2(k) == IF k = 0 THEN 1 ELSE 2 * Pow2(k - 1)

\* The binary digits of a natural, highest first (none for 0).
RECURSIVE Bits(_)
Bits(n) == IF n = 0 THEN << >> ELSE Append(Bits(n \div 2), n % 2)

\* n zeros.
Zeros(n) == [i \in 1..n |-> 0]

\* The binary digits of n < 2^k, written with k digits.
PadBits(n, k) == Zeros(k - Len(Bits(n))) \o Bits(n)

\* The natural whose binary digits are b.
RECURSIVE NatOfBits(_)
NatOfBits(b) ==
    IF b = << >> THEN 0 ELSE 2 * NatOfBits(SubSeq(b, 1, Len(b) - 1)) + b[Len(b)]

\* b plus one in the last place: the bits and the carry out of the first.
IncrBits(b) ==
    LET zeros == {i \in DOMAIN b : b[i] = 0} IN
    IF zeros = {} THEN [c |-> 1, b |-> Zeros(Len(b))]
    ELSE LET p == CHOOSE i \in zeros : \A k \in zeros : k <= i
         IN [c |-> 0, b |-> [i \in DOMAIN b |-> IF i < p THEN b[i] ELSE IF i = p THEN 1 ELSE 0]]

\* Round to nearest, ties to even: the float64 nearest to the number whose
\* binary digits are `bits` (the first of them 1) times 2^e, `sticky` telling
\* that nonzero digits follow beyond `bits`.
RoundNearestEven(e, bits, sticky) ==
    IF Len(bits) <= Precision
    THEN [e |-> e, m |-> bits \o Zeros(Precision - Len(bits))]
    ELSE LET kept  == SubSeq(bits, 1, Precision)
             guard == bits[Precision + 1]
             more  == sticky \/ \E i \in (Precision + 2)..Len(bits) : bits[i] = 1
             up    == guard = 1 /\ (more \/ kept[Precision] = 1)
             inc   == IncrBits(kept)
         IN IF ~up THEN [e |-> e, m |-> kept]
            ELSE IF inc.c = 1 THEN [e |-> e + 1, m |-> << 1 >> \o Zeros(Precision - 1)]
            ELSE [e |-> e, m |-> inc.b]

\* float64(n) for a natural n.
FloatOfInt(n) ==
    IF n = 0 THEN FloatZero ELSE RoundNearestEven(Len(Bits(n)) - 1, Bits(n), FALSE)

\* The next n binary digits of rem / d (rem < d), and the remainder left,
\* by long division, Chunk digits at a time.
RECURSIVE DivBits(_, _, _)
DivBits(rem, d, n) ==
    IF n = 0 THEN [bits |-> << >>, rem |-> rem]
    ELSE LET k    == IF n < Chunk THEN n ELSE Chunk
             t    == rem * Pow2(k)
             rest == DivBits(t % d, d, n - k)
         IN [bits |-> PadBits(t \div d, k) \o rest.bits, rem |-> rest.rem]

\* The k with d * 2^k <= n < d * 2^(k+1), for n >= d.
RECURSIVE ShiftDown(_, _)
ShiftDown(n, d) == IF 2 * d <= n THEN 1 + ShiftDown(n, 2 * d) ELSE 0

\* The least k with n * 2^k >= d.
RECURSIVE ShiftUp(_, _)
ShiftUp(n, d) == IF n >= d THEN 0 ELSE 1 + ShiftUp(2 * n, d)

\* float64(n) / float64(d) for naturals n and d > 0 that float64 holds
\* exactly: the quotient correctly rounded.
FloatDiv(n, d) ==
    IF n = 0 THEN FloatZero
    ELSE LET e   == IF n >= d THEN ShiftDown(n, d) ELSE 0 - ShiftUp(n, d)
             num == IF n >= d THEN n ELSE n * Pow2(0 - e)
             den == IF n >= d THEN d * Pow2(e) ELSE d
             q   == DivBits(num - den, den, Precision)
         IN RoundNearestEven(e, << 1 >> \o q.bits, q.rem # 0)

\* The binary digits of (the number whose digits are b[1..n]) times c plus
\* carry, Chunk digits at a time from the last.
RECURSIVE MulBits(_, _, _, _)
MulBits(b, n, c, carry) ==
    IF n = 0 THEN Bits(carry)
    ELSE LET k == IF n < Chunk THEN n ELSE Chunk
             t == NatOfBits(SubSeq(b, n - k + 1, n)) * c + carry
         IN MulBits(b, n - k, c, t \div Pow2(k)) \o PadBits(t % Pow2(k), k)

\* x * c for a float64 x and a constant c that is a natural float64 holds
\* exactly: the product correctly rounded.
FloatMul(x, c) ==
    IF x = FloatZero \/ c = 0 THEN FloatZero
    ELSE LET prod == MulBits(x.m, Len(x.m), c, 0)
         IN RoundNearestEven(x.e + Len(prod) - Precision, prod, FALSE)

\* a > b for bit sequences of one length, read as numbers.
BitsGreater(a, b) ==
    \E i \in DOMAIN a : a[i] > b[i] /\ \A k \in 1..(i - 1) : a[k] = b[k]

\* Variant: x >= y.
FloatGreaterOrEqual(x, y) ==
    IF y = FloatZero THEN TRUE
    ELSE IF x = FloatZero THEN FALSE
    ELSE IF x.e # y.e THEN x.e > y.e
    ELSE ~BitsGreater(y.m, x.m)

\* x > y for float64 values that are zero or positive.
FloatGreater(x, y) ==
    IF x = FloatZero THEN FALSE
    ELSE IF y = FloatZero THEN TRUE
    ELSE IF x.e # y.e THEN x.e > y.e
    ELSE BitsGreater(x.m, y.m)

\* -------------------------------------------------------------------- monitor

\* const windowDuration (5 minutes), in clock ticks.
windowDuration == 1

\* pruneWindow: the entries from the first one that is not before the cutoff.
RECURSIVE pruneWindow(_, _)
pruneWindow(window, t) ==
    IF window # << >> /\ Head(window).ts < t - windowDuration
    THEN pruneWindow(Tail(window), t)
    ELSE window

\* addWindow at clock reading t.
addWindow(window, isDuplicate, t) ==
    pruneWindow(Append(window, [ts |-> t, isDuplicate |-> isDuplicate]), t)

\* Metrics.Snapshot, lines 211-213: the window entries after the cutoff, at
\* clock reading t.
InWindow(m, t) == {i \in DOMAIN m.window : m.window[i].ts > t - windowDuration}

\* Metrics.Snapshot, lines 218-221: the duplicate rate of the window in percent.
dupRate(m, t) ==
    LET windowReqs == Cardinality(InWindow(m, t))
        windowDups == Cardinality({i \in InWindow(m, t) : m.window[i].isDuplicate})
    IN IF windowReqs > 0
       THEN FloatMul(FloatDiv(windowDups, windowReqs), 100)
       ELSE FloatZero

\* Metrics.Snapshot, lines 224-236: the returned MetricsSnapshot.
SnapshotWith(m, t, anomalyDetected) ==
    [ taken            |-> TRUE,
      at               |-> t,   \* observation: the clock reading of the call
      TotalRequests    |-> m.TotalRequests,
      NewPayments      |-> m.NewPayments,
      DuplicateBlocked |-> m.DuplicateBlocked,
      RetryAllowed     |-> m.RetryAllowed,
      CachedResponses  |-> m.CachedResponses,
      ParamMismatches  |-> m.ParamMismatches,
      WindowRequests   |-> Cardinality(InWindow(m, t)),
      WindowDuplicates |-> Cardinality({i \in InWindow(m, t) : m.window[i].isDuplicate}),
      WindowDupRate    |-> dupRate(m, t),
      AnomalyDetected  |-> anomalyDetected,
      AnomalyThreshold |-> FloatOfInt(20) ]

\* Variant: AnomalyDetected from the threshold on.
SnapshotInclusive(m, t) ==
    SnapshotWith(m, t, FloatGreaterOrEqual(dupRate(m, t), FloatOfInt(20)))

\* Metrics.Snapshot: AnomalyDetected is dupRate > 20.0.
MetricsSnapshot(m, t) ==
    SnapshotWith(m, t, FloatGreater(dupRate(m, t), FloatOfInt(20)))

\* ------------------------------------------------------------------ reporter

\* const suspiciousThreshold of the reporting service.
suspiciousThreshold == 3

\* Variant: a record is suspicious from the threshold on.
IsSuspiciousInclusive(d) == d.attempt_count >= suspiciousThreshold

\* GetDuplicateReport, line 201: d.AttemptCount > suspiciousThreshold.
IsSuspicious(d) == d.attempt_count > suspiciousThreshold

\* The WHERE clause of GetDuplicates: the merchant's rows first seen in
\* [from, to] that were bumped at least once.
GetDuplicatesRows(tbl, merchantID, from, to) ==
    {r \in tbl : /\ r.merchant_id = merchantID
                 /\ r.first_seen_at >= from
                 /\ r.first_seen_at <= to
                 /\ r.attempt_count > 1}

\* ORDER BY attempt_count DESC of GetDuplicates: the sequences holding each
\* row of S once, highest attempt_count first (SQL leaves the order of rows
\* with equal attempt_count open).
OrderByAttemptsDesc(S) ==
    {q \in [1..Cardinality(S) -> S] :
        /\ \A i, j \in 1..Cardinality(S) : i < j => q[i] # q[j]
        /\ \A i, j \in 1..Cardinality(S) : i < j => q[i].attempt_count >= q[j].attempt_count}

\* SUM(attempt_count) over a set of rows (COALESCE(..., 0) when it is empty).
RECURSIVE SumAttemptCount(_)
SumAttemptCount(S) ==
    IF S = {} THEN 0
    ELSE LET r == CHOOSE x \in S : TRUE IN r.attempt_count + SumAttemptCount(S \ {r})

\* GetMerchantStats: SUM(attempt_count) and COUNT(*) over the merchant's rows
\* first seen in [from, to].
GetMerchantStats(tbl, merchantID, from, to) ==
    LET S == {r \in tbl : /\ r.merchant_id = merchantID
                          /\ r.first_seen_at >= from
                          /\ r.first_seen_at <= to}
    IN [total |-> SumAttemptCount(S), unique |-> Cardinality(S)]

\* domain.SuspiciousKey built from a duplicate record.
SuspiciousKey(d) ==
    [ idempotency_key |-> d.idempotency_key,
      attempt_count   |-> d.attempt_count,
      amount          |-> d.amount,
      currency        |-> d.currency,
      status          |-> d.status,
      first_seen_at   |-> d.first_seen_at,
      last_seen_at    |-> d.last_seen_at ]

\* Variant: every attempt of a duplicate counts as at risk.
AtRiskAll(d) == d.amount * d.attempt_count

\* GetDuplicateReport, lines 213-215: d.Amount * int64(d.AttemptCount - 1).
AtRisk(d) == d.amount * (d.attempt_count - 1)

\* The loop of GetDuplicateReport over the duplicates, lines 200-218: the
\* suspicious keys in the order met, the amount at risk, and the amount at
\* risk per currency (a map with the currencies met as its keys).
RECURSIVE ReportLoop(_, _)
ReportLoop(duplicates, acc) ==
    IF duplicates = << >> THEN acc
    ELSE LET d == Head(duplicates)
             cb == acc.currencyBreakdown
         IN ReportLoop(Tail(duplicates),
               [ suspicious        |-> IF IsSuspicious(d)
                                       THEN Append(acc.suspicious, SuspiciousKey(d))
                                       ELSE acc.suspicious,
                 amountAtRisk      |-> acc.amountAtRisk + AtRisk(d),
                 currencyBreakdown |-> [c \in DOMAIN cb \cup {d.currency} |->
                                          (IF c \in DOMAIN cb THEN cb[c] ELSE 0)
                                          + (IF c = d.currency THEN AtRisk(d) ELSE 0)] ])

\* domain.DuplicateReport as GetDuplicateReport builds it, lines 221-230.
DuplicateReport(merchantID, from, to, duplicates, stats) ==
    LET l == ReportLoop(duplicates, [suspicious |-> << >>, amountAtRisk |-> 0,
                                     currencyBreakdown |-> << >>])
    IN [ merchant_id        |-> merchantID,
         total_requests     |-> stats.total,
         unique_payments    |-> stats.unique,
         duplicate_count    |-> stats.total - stats.unique,
         suspicious_keys    |-> l.suspicious,
         time_range         |-> [from |-> from, to |-> to],
         amount_at_risk     |-> l.amountAtRisk,
         currency_breakdown |-> l.currencyBreakdown ]

\* -------------------------------------------------------------------- inputs

Request(key, merchant, customer, amount, currency) ==
    [ idempotency_key |-> key, merchant_id |-> merchant, customer_id |-> customer,
      amount |-> amount, currency |-> currency ]

NoRequest == Request("", "", "", 0, "")

ValidRequests ==
    {Request(k, "m1", "c1", a, "BRL") : k \in Keys, a \in {5000, 9999}}

InvalidRequests == {Request("A", "m1", "c1", -1, "BRL")}

Requests == ValidRequests \cup InvalidRequests

\* Requests with every field filled or empty, and amounts on both sides of 0.
AnyRequests ==
    {Request(k, m, c, a, cur) : k \in {"", "A"}, m \in {"", "m1"}, c \in {"", "c1"},
                                a \in {0 - 1, 0, 5000}, cur \in {"", "BRL"}}

CompleteRequest(key, status, body) == [key |-> key, status |-> status, body |-> body]

NoCompleteRequest == CompleteRequest("", "", NoBody)

CompleteRequests ==
    {CompleteRequest(k, StatusSucceeded, b) : k \in Keys, b \in {NoBody, BodyCompact}}
    \cup {CompleteRequest(k, StatusFailed, NoBody) : k \in Keys}
    \cup {CompleteRequest("A", "pending", NoBody)}

Kinds == {"new", "expired_reused", "retry", "in_progress", "mismatch", "replay"}

\* --------------------------------------------------------------------- state

VARIABLES
    now,        \* the wall clock (time.Now() and SQL NOW())
    rows,       \* table idempotency_keys
    lock,       \* advisory lock identifier -> holder, or 0 when free
    procs,      \* per ProcessPayment caller: position and locals of its call
    mc,         \* per MarkComplete caller: position and locals of its call
    calls,      \* ProcessPayment calls started
    completes,  \* MarkComplete calls started
    audit,      \* observation: outcomes returned so far, per key: how many of
                \* each kind, MarkComplete calls that returned nil, keys
                \* deleted by DeleteExpired, the count the last DeleteExpired
                \* returned, request hashes seen, the last
                \* acceptance still standing, the payload completed with
    lin,        \* observation: the table if every ProcessPayment call ran as one
                \* step at the moment of its upsert
    dirty,      \* observation: keys on which the one-step run is no reference:
                \* a MarkComplete or DeleteExpired statement ran while a
                \* ProcessPayment call was past its upsert, or the clock
                \* passed the expiry between a call's upsert and its decision
    metrics,    \* the monitor's Metrics object: counters and sliding window
    snap,       \* the MetricsSnapshot the last Snapshot call returned, while
                \* no Record* call has run since
    rp,         \* the GetDuplicateReport caller: position and locals
    mock        \* the mockRepo of the tests: its records, and the results the
                \* last repository call returned from PostgresRepository
                \* and from mockRepo

vars == << now, rows, lock, procs, mc, calls, completes, audit, lin, dirty,
          metrics, snap, rp, mock >>

LockIds == {advisoryLockKey(k) : k \in AllKeys}

NoRow == NewRow(NoRequest, "", 0, 0)

NoAccept == [payment_id |-> "", hash |-> "", expires_at |-> 0]

\* The mark of a call whose record was completed or deleted after its upsert:
\* what it returns founds no acceptance.
VoidAccept == [payment_id |-> "", hash |-> "void", expires_at |-> 0]

NoPayload == << "none" >>   \* no MarkComplete(succeeded) has returned nil

\* A ProcessPayment caller's locals.  pc: "idle", "begin" (inside InsertOrGet,
\* waiting for the advisory lock), "locked", "decide", "reset", "ret" (about
\* to return resp).
IdleProc ==
    [ pc        |-> "idle",
      req       |-> NoRequest,       \* ProcessPayment: req
      paymentID |-> "",              \* ProcessPayment: paymentID
      expiresAt |-> 0,               \* ProcessPayment: expiresAt
      rec       |-> NoRow,           \* ProcessPayment: rec
      isNew     |-> FALSE,           \* ProcessPayment: isNew
      resp      |-> NoResponse,      \* ProcessPayment: the response it returns
      existed   |-> FALSE,           \* observation: a row existed before the upsert
      left      |-> NoRow,           \* observation: the key's row after ResetToProcessing
      expected  |-> NoResponse,      \* observation: the response of the one-step run
      after     |-> NoAccept ]       \* observation: the acceptance this call follows
                                     \* and decides within the expiry of

\* A MarkComplete caller's locals.  pc: "idle", "mc_exists" (the UPDATE
\* changed no row), "mc_ret" (about to return cres).
IdleComplete == [pc |-> "idle", creq |-> NoCompleteRequest, cres |-> ""]

\* The table holds what earlier traffic left in it: nothing, or the row that
\* one ProcessPayment call for key A with amount 5000 inserted TTL ticks ago,
\* which is on the point of expiring (expires_at = 0).
SeedRequest == Request("A", "m1", "c1", 5000, "BRL")

SeedRow == NewRow(SeedRequest, generatePaymentID(0 - TTL), 0 - TTL, 0)

\* The observation that goes with a table: the outcomes returned while it
\* was being filled.
AuditOf(tbl) ==
    LET r == IF tbl = {} THEN NoRow ELSE CHOOSE x \in tbl : TRUE IN
    [ count      |-> [k \in AllKeys |-> [o \in Kinds |->
                        IF tbl # {} /\ k = "A" /\ o = "new" THEN 1 ELSE 0]],
      completeOk |-> [k \in AllKeys |-> [st \in {StatusSucceeded, StatusFailed} |->
                        IF tbl # {} /\ k = "A" /\ r.status = st THEN 1 ELSE 0]],
      swept      |-> {},
      deleted    |-> 0,
      payload    |-> [k \in AllKeys |-> NoPayload],
      seenHash   |-> [k \in AllKeys |-> IF tbl # {} /\ k = "A" THEN {r.request_hash} ELSE {}],
      accepted   |-> [k \in AllKeys |->
                        IF tbl # {} /\ k = "A" /\ r.status = StatusProcessing
                        THEN [payment_id |-> r.payment_id, hash |-> r.request_hash,
                              expires_at |-> r.expires_at]
                        ELSE NoAccept] ]

\* NewMetrics: &Metrics{}.
NewMetrics ==
    [ TotalRequests    |-> 0,
      NewPayments      |-> 0,
      DuplicateBlocked |-> 0,
      RetryAllowed     |-> 0,
      CachedResponses  |-> 0,
      ParamMismatches  |-> 0,
      window           |-> << >> ]

NoSnapshot == [taken |-> FALSE]

NoReport == DuplicateReport("", 0, 0, << >>, [total |-> 0, unique |-> 0])

\* The GetDuplicateReport caller's locals.  pc: "idle", "stats" (GetDuplicates
\* has returned, GetMerchantStats is next), "ret" (about to return report).
IdleReport ==
    [ pc         |-> "idle",
      merchantID |-> "",
      from       |-> 0,
      to         |-> 0,
      duplicates |-> << >>,
      report     |-> NoReport ]

\* What a repository call returns: the error ("" for nil), and for
\* InsertOrGet the record and isNew.
Result(err, rec, isNew) == [err |-> err, rec |-> rec, isNew |-> isNew]

NoResult == Result("", NoRow, FALSE)

\* newMockRepo: no records.
newMockRepo == [records |-> {}, pg |-> NoResult, res |-> NoResult]

Init ==
    /\ now = 0
    /\ rows \in {{}, {SeedRow}}
    /\ lock = [l \in LockIds |-> 0]
    /\ procs = [p \in Procs |-> IdleProc]
    /\ mc = [c \in Completers |-> IdleComplete]
    /\ calls = 0
    /\ completes = 0
    /\ audit = AuditOf(rows)
    /\ lin = rows
    /\ dirty = {}
    /\ metrics = NewMetrics
    /\ snap = NoSnapshot
    /\ rp = IdleReport
    /\ mock = newMockRepo

\* Tables the reporter is run against: up to three keys of two merchants,
\* each first seen at some clock reading and bumped up to MaxAttempts times.
ReportKeys == {"A", "B", "C"}

ReportRequest(k, m) ==
    IF k = "A" THEN Request(k, m, "c1", 5000, "BRL")
    ELSE IF k = "B" THEN Request(k, m, "c1", 15000, "BRL")
    ELSE Request(k, m, "c1", 5000, "USD")

\* The row of a key first seen at t and seen n times, last at t.
ReportRow(k, m, n, t) ==
    [NewRow(ReportRequest(k, m), generatePaymentID(t), t, t + TTL)
        EXCEPT !.attempt_count = n]

ReportOptions ==
    {<< m, n, t >> : m \in {"m1", "m2"}, n \in 1..MaxAttempts, t \in 0..MaxTime}
        \cup {<< >>}

ReportTables ==
    {{ReportRow(k, f[k][1], f[k][2], f[k][3]) : k \in {x \in ReportKeys : f[x] # << >>}}
        : f \in [ReportKeys -> ReportOptions]}

InitReport ==
    /\ now = MaxTime
    /\ rows \in ReportTables
    /\ lock = [l \in LockIds |-> 0]
    /\ procs = [p \in Procs |-> IdleProc]
    /\ mc = [c \in Completers |-> IdleComplete]
    /\ calls = 0
    /\ completes = 0
    /\ audit = AuditOf({})
    /\ lin = rows
    /\ dirty = {}
    /\ metrics = NewMetrics
    /\ snap = NoSnapshot
    /\ rp = IdleReport
    /\ mock = newMockRepo

\* Callers of key k that are past their upsert and have not decided and reset.
MidFlight(k) ==
    {p \in Procs : procs[p].pc \in {"decide", "reset"} /\ procs[p].req.idempotency_key = k}

\* The key's row as a reader would find it (NoRow when there is none).
RowOf(tbl, k) == IF Conflicting(tbl, k) = {} THEN NoRow ELSE Returning(tbl, k)

\* Observation: the calls in progress on the keys `ks`, other than p, no longer
\* follow an acceptance undisturbed.
Disturb(ps, p, ks) ==
    [q \in Procs |->
        IF q # p /\ ps[q].req.idempotency_key \in ks /\ ps[q].after # VoidAccept
        THEN [ps[q] EXCEPT !.after = NoAccept]
        ELSE ps[q]]

\* Observation: a MarkComplete or DeleteExpired statement changed the row of a
\* key in `ks`; the calls past their upsert on it are marked, the others no
\* longer follow an acceptance undisturbed.
Overtake(ps, ks) ==
    [q \in Procs |->
        IF ps[q].req.idempotency_key \in ks /\ ps[q].resp.kind # "invalid"
        THEN [ps[q] EXCEPT !.after = IF ps[q].pc \in {"decide", "reset", "ret"}
                                      THEN VoidAccept ELSE NoAccept]
        ELSE ps[q]]

\* -------------------------------------------------------------------- actions

Tick ==
    /\ now < MaxTime
    /\ now' = now + 1
    /\ UNCHANGED << rows, lock, procs, mc, calls, completes, audit, lin, dirty, metrics, snap, rp,
                    mock >>

\* ProcessPayment, lines 31-39: validate, generate the payment id, compute the
\* expiry, and enter InsertOrGet (BeginTx).  Callers are interchangeable: a
\* call takes the lowest idle caller.
Call(p, req) ==
    /\ procs[p].pc = "idle"
    /\ \A q \in Procs : q < p => procs[q].pc # "idle"
    /\ calls < MaxCalls
    /\ calls' = calls + 1
    /\ IF ~validateRequest(req)
       THEN /\ procs' = [procs EXCEPT ![p] =
                    [IdleProc EXCEPT !.pc = "ret",
                                     !.req = req,
                                     !.resp = Response(422, "invalid", "", "", 0, NoBody, FALSE)]]
            /\ UNCHANGED audit
       ELSE /\ procs' = [procs EXCEPT ![p] =
                    [IdleProc EXCEPT !.pc = "begin",
                                     !.req = req,
                                     !.paymentID = generatePaymentID(now),
                                     !.expiresAt = now + TTL,
                                     !.after = audit.accepted[req.idempotency_key]]]
            /\ audit' = [audit EXCEPT !.seenHash[req.idempotency_key] = @ \cup {Hash(req)}]
    /\ UNCHANGED << mock, now, rows, lock, mc, completes, lin, dirty, metrics, snap, rp >>

\* InsertOrGet, lines 76-80: SELECT pg_advisory_xact_lock(lockKey) blocks until
\* no other transaction holds the identifier.
AcquireLock(p) ==
    /\ procs[p].pc = "begin"
    /\ LET id == advisoryLockKey(procs[p].req.idempotency_key) IN
        /\ AdvisoryLockFree(lock, id)
        /\ lock' = [lock EXCEPT ![id] = p]
    /\ procs' = [procs EXCEPT ![p].pc = "locked"]
    /\ UNCHANGED << mock, now, rows, mc, calls, completes, audit, lin, dirty, metrics, snap, rp >>

\* InsertOrGet, lines 82-123: the upsert, COMMIT (which releases the advisory
\* lock), and isNew derived from the returned attempt_count.
UpsertCommit(p) ==
    /\ procs[p].pc = "locked"
    /\ LET me    == procs[p]
           key   == me.req.idempotency_key
           tbl   == UpsertTable(rows, me.req, me.paymentID, now, me.expiresAt)
           rec   == Returning(tbl, key)
           ltbl  == UpsertTable(lin, me.req, me.paymentID, now, me.expiresAt)
           lrec  == Returning(ltbl, key)
           ldec  == Decision(lrec, lrec.attempt_count = 1, me.req, me.paymentID, now)
       IN /\ rows' = tbl
          /\ lock' = AdvisoryUnlock(lock, advisoryLockKey(key))
          /\ procs' = [procs EXCEPT ![p].pc = "decide",
                                    ![p].rec = rec,
                                    ![p].isNew = (rec.attempt_count = 1),
                                    ![p].existed = (Conflicting(rows, key) # {}),
                                    ![p].expected = ldec]
          /\ lin' = IF ldec.reset
                    THEN ResetTable(ltbl, key, me.paymentID, me.expiresAt, now)
                    ELSE ltbl
    /\ UNCHANGED << mock, now, mc, calls, completes, audit, dirty, metrics, snap, rp >>

\* ProcessPayment, lines 44-118: the branch taken on (rec, isNew).
Decide(p) ==
    /\ procs[p].pc = "decide"
    /\ LET me == procs[p]
           d  == Decision(me.rec, me.isNew, me.req, me.paymentID, now)
       IN /\ procs' = [procs EXCEPT ![p].pc = IF d.reset THEN "reset" ELSE "ret",
                                    ![p].resp = d,
                                    ![p].after = IF me.after # VoidAccept
                                                    /\ now > me.after.expires_at
                                                 THEN NoAccept ELSE @]
          /\ dirty' = IF (d.kind = "expired_reused") # (me.expected.kind = "expired_reused")
                      THEN dirty \cup {me.req.idempotency_key} ELSE dirty
    /\ UNCHANGED << mock, now, rows, lock, mc, calls, completes, audit, lin, metrics, snap, rp >>

\* ProcessPayment, lines 59 and 105: ResetToProcessing (its error is nil
\* whether or not a row changed).
Reset(p) ==
    /\ procs[p].pc = "reset"
    /\ LET me  == procs[p]
           tbl == ResetTable(rows, me.rec.idempotency_key, me.paymentID, me.expiresAt, now)
       IN /\ rows' = tbl
          /\ procs' = [procs EXCEPT ![p].pc = "ret",
                                    ![p].left = RowOf(tbl, me.rec.idempotency_key)]
    /\ UNCHANGED << mock, now, lock, mc, calls, completes, audit, lin, dirty, metrics, snap, rp >>

\* The response of ProcessPayment to a store error: nil, 500, err.
Unavailable == Response(500, "unavailable", "", "", 0, NoBody, FALSE)

\* InsertOrGet fails at BeginTx, at the advisory lock, at the upsert or at
\* Commit: the deferred tx.Rollback() undoes the statement and releases the
\* lock, and ProcessPayment returns 500 (lines 40-42).
InsertOrGetFail(p) ==
    /\ procs[p].pc \in {"begin", "locked"}
    /\ lock' = IF procs[p].pc = "locked"
               THEN AdvisoryUnlock(lock, advisoryLockKey(procs[p].req.idempotency_key))
               ELSE lock
    /\ procs' = [procs EXCEPT ![p].pc = "ret", ![p].resp = Unavailable]
    /\ UNCHANGED << mock, now, rows, mc, calls, completes, audit, lin, dirty, metrics, snap, rp >>

\* ResetToProcessing returns an error: its UPDATE changed nothing, and
\* ProcessPayment returns 500 (lines 59-61 and 105-107) after InsertOrGet
\* has committed.
ResetFail(p) ==
    /\ procs[p].pc = "reset"
    /\ procs' = [procs EXCEPT ![p].pc = "ret", ![p].resp = Unavailable]
    /\ UNCHANGED << mock, now, rows, lock, mc, calls, completes, audit, lin, dirty, metrics, snap, rp >>

\* ProcessPayment returns resp to its caller.
Return(p) ==
    /\ procs[p].pc = "ret"
    /\ LET me  == procs[p]
           key == me.req.idempotency_key
       IN IF me.resp.kind \notin Kinds
          THEN /\ procs' = [procs EXCEPT ![p] = IdleProc]
               /\ UNCHANGED audit
          ELSE /\ procs' = IF me.resp.code = 201
                           THEN Disturb([procs EXCEPT ![p] = IdleProc], p, {key})
                           ELSE [procs EXCEPT ![p] = IdleProc]
               /\ audit' = [audit EXCEPT
                              !.count[key][me.resp.kind] = @ + 1,
                              !.accepted[key] =
                                  IF me.resp.code = 201 /\ me.after # VoidAccept
                                  THEN [payment_id |-> me.resp.payment_id,
                                        hash       |-> Hash(me.req),
                                        expires_at |-> me.expiresAt]
                                  ELSE IF me.resp.code = 201 THEN NoAccept
                                  ELSE @]
    /\ UNCHANGED << mock, now, rows, lock, mc, calls, completes, lin, dirty, metrics, snap, rp >>

\* Variant: MarkComplete lets every target status through.
ValidStatusAny(status) == TRUE

\* IdempotencyService.MarkComplete, line 123: the target statuses it lets through.
ValidStatus(status) == status = StatusSucceeded \/ status = StatusFailed

\* IdempotencyService.MarkComplete, lines 122-127, and the conditional UPDATE
\* of PostgresRepository.MarkComplete, lines 157-170 and 179: an invalid
\* status is rejected before the store is touched; a changed row returns nil.
\* Callers are interchangeable: a call takes the lowest idle caller.  `max`
\* bounds the calls started in one behaviour.
Complete(c, creq, max) ==
    /\ mc[c].pc = "idle"
    /\ \A d \in Completers : d < c => mc[d].pc # "idle"
    /\ completes < max
    /\ completes' = completes + 1
    /\ IF ~ValidStatus(creq.status)
       THEN /\ mc' = [mc EXCEPT ![c] = [pc |-> "mc_ret", creq |-> creq, cres |-> "invalid_status"]]
            /\ UNCHANGED << rows, lin, dirty, procs, audit >>
       ELSE /\ rows' = MarkCompleteTable(rows, creq.key, creq.status, creq.body, now)
            /\ lin' = MarkCompleteTable(lin, creq.key, creq.status, creq.body, now)
            /\ dirty' = IF MidFlight(creq.key) # {} THEN dirty \cup {creq.key} ELSE dirty
            /\ IF MarkCompleteMatches(rows, creq.key) # {}
               THEN /\ mc' = [mc EXCEPT ![c] = [pc |-> "mc_ret", creq |-> creq, cres |-> "ok"]]
                    /\ procs' = Overtake(procs, {creq.key})
                    /\ audit' = [audit EXCEPT !.completeOk[creq.key][creq.status] = @ + 1,
                                              !.accepted[creq.key] = NoAccept,
                                              !.payload[creq.key] =
                                                  IF creq.status = StatusSucceeded
                                                  THEN creq.body ELSE @]
               ELSE /\ mc' = [mc EXCEPT ![c] = [pc |-> "mc_exists", creq |-> creq, cres |-> ""]]
                    /\ UNCHANGED << procs, audit >>
    /\ UNCHANGED << mock, now, lock, calls, metrics, snap, rp >>

\* PostgresRepository.MarkComplete, lines 171-178: no row changed, so a second
\* statement asks whether the key exists at all.
CompleteExists(c) ==
    /\ mc[c].pc = "mc_exists"
    /\ mc' = [mc EXCEPT ![c].pc = "mc_ret",
                        ![c].cres = IF Conflicting(rows, mc[c].creq.key) = {}
                                    THEN "not_found" ELSE "already_completed"]
    /\ UNCHANGED << mock, now, rows, lock, procs, calls, completes, audit, lin, dirty, metrics, snap, rp >>

\* MarkComplete returns cres to its caller.
CompleteReturn(c) ==
    /\ mc[c].pc = "mc_ret"
    /\ mc' = [mc EXCEPT ![c] = IdleComplete]
    /\ UNCHANGED << mock, now, rows, lock, procs, calls, completes, audit, lin, dirty, metrics, snap, rp >>

\* PostgresRepository.DeleteExpired: one DELETE statement, and the count it
\* returns.
Sweep ==
    LET gone == {r.idempotency_key : r \in rows \ DeleteExpiredTable(rows, now)} IN
    /\ rows' = DeleteExpiredTable(rows, now)
    /\ lin' = DeleteExpiredTable(lin, now)
    /\ dirty' = dirty \cup {k \in AllKeys : /\ MidFlight(k) # {}
                                         /\ \/ k \in gone
                                            \/ RowOf(lin, k) \notin DeleteExpiredTable(lin, now)
                                               /\ Conflicting(lin, k) # {}}
    /\ procs' = Overtake(procs, gone)
    /\ audit' = [audit EXCEPT
                   !.swept = @ \cup gone,
                   !.deleted = RowsAffected(rows, DeleteExpiredTable(rows, now)),
                   !.payload = [k \in AllKeys |-> IF k \in gone THEN NoPayload ELSE @[k]],
                   !.accepted = [k \in AllKeys |-> IF k \in gone THEN NoAccept ELSE @[k]]]
    /\ UNCHANGED << mock, now, lock, mc, calls, completes, metrics, snap, rp >>

Next ==
    \/ Tick
    \/ \E p \in Procs, req \in Requests : Call(p, req)
    \/ \E p \in Procs : AcquireLock(p)
    \/ \E p \in Procs : UpsertCommit(p)
    \/ \E p \in Procs : Decide(p)
    \/ \E p \in Procs : Reset(p)
    \/ \E p \in Procs : Return(p)
    \/ \E c \in Completers, creq \in CompleteRequests : Complete(c, creq, MaxCompletes)
    \/ \E c \in Completers : CompleteExists(c)
    \/ \E c \in Completers : CompleteReturn(c)
    \/ Sweep

Spec == Init /\ [][Next]_vars

\* MarkComplete calls racing each other, next to one ProcessPayment caller.
NextComplete ==
    \/ Tick
    \/ \E req \in ValidRequests : Call(1, req)
    \/ AcquireLock(1)
    \/ UpsertCommit(1)
    \/ Decide(1)
    \/ Reset(1)
    \/ Return(1)
    \/ \E c \in Completers, creq \in CompleteRequests : Complete(c, creq, MaxRacing)
    \/ \E c \in Completers : CompleteExists(c)
    \/ \E c \in Completers : CompleteReturn(c)
    \/ Sweep

SpecComplete == Init /\ [][NextComplete]_vars

\* GetDuplicateReport, lines 180-183: the first query, GetDuplicates.
ReportDuplicates(merchantID, from, to) ==
    /\ rp.pc = "idle"
    /\ \E q \in OrderByAttemptsDesc(GetDuplicatesRows(rows, merchantID, from, to)) :
          rp' = [IdleReport EXCEPT !.pc = "stats",
                                   !.merchantID = merchantID,
                                   !.from = from,
                                   !.to = to,
                                   !.duplicates = q]
    /\ UNCHANGED << mock, now, rows, lock, procs, mc, calls, completes, audit, lin, dirty,
                    metrics, snap >>

\* GetDuplicateReport, lines 185-230: the second query, GetMerchantStats,
\* and the report computed from the two results.
ReportStats ==
    /\ rp.pc = "stats"
    /\ rp' = [rp EXCEPT !.pc = "ret",
                        !.report = DuplicateReport(rp.merchantID, rp.from, rp.to, rp.duplicates,
                                       GetMerchantStats(rows, rp.merchantID, rp.from, rp.to))]
    /\ UNCHANGED << mock, now, rows, lock, procs, mc, calls, completes, audit, lin, dirty,
                    metrics, snap >>

\* GetDuplicateReport returns report to its caller.
ReportReturn ==
    /\ rp.pc = "ret"
    /\ rp' = IdleReport
    /\ UNCHANGED << mock, now, rows, lock, procs, mc, calls, completes, audit, lin, dirty,
                    metrics, snap >>

\* The reporter run against the tables of ReportTables.
NextReport ==
    \/ \E m \in {"m1"}, from \in 0..MaxTime, to \in 0..MaxTime : ReportDuplicates(m, from, to)
    \/ ReportStats
    \/ ReportReturn

SpecReport == InitReport /\ [][NextReport]_vars

\* The reporter running while ProcessPayment calls and the sweep use the
\* table.
NextReportRace ==
    \/ Tick
    \/ \E req \in ValidRequests : Call(1, req)
    \/ AcquireLock(1)
    \/ UpsertCommit(1)
    \/ Decide(1)
    \/ Reset(1)
    \/ Return(1)
    \/ Sweep
    \/ \E from \in (0 - TTL)..MaxTime, to \in 0..MaxTime : ReportDuplicates("m1", from, to)
    \/ ReportStats
    \/ ReportReturn

SpecReportRace == Init /\ [][NextReportRace]_vars

\* ------------------------------------------------- mockRepo beside Postgres

MaxOps == 3   \* repository calls in one behaviour

\* mockRepo.InsertOrGet at clock reading t: the records it leaves.
mockInsertOrGet(records, req, paymentID, expiresAt, t) ==
    IF \E r \in records : r.idempotency_key = req.idempotency_key
    THEN {IF r.idempotency_key = req.idempotency_key
            THEN [r EXCEPT !.attempt_count = @ + 1, !.last_seen_at = t]
            ELSE r
            : r \in records}
    ELSE records \cup {NewRow(req, paymentID, t, expiresAt)}

\* mockRepo.MarkComplete: the error it returns.
mockMarkCompleteErr(records, key) ==
    IF ~(\E r \in records : r.idempotency_key = key) THEN "not_found"
    ELSE IF (CHOOSE r \in records : r.idempotency_key = key).status # StatusProcessing
      THEN "already_completed"
    ELSE "ok"

\* mockRepo.MarkComplete at clock reading t: the records it leaves.
mockMarkComplete(records, key, status, body, t) ==
    IF mockMarkCompleteErr(records, key) # "ok" THEN records
    ELSE {IF r.idempotency_key = key
            THEN [r EXCEPT !.status = status,
                           !.response_body = body,
                           !.completed_at = SomeTime(t)]
            ELSE r
            : r \in records}

\* mockRepo.ResetToProcessing: the error it returns.
mockResetToProcessingErr(records, key) ==
    IF \E r \in records : r.idempotency_key = key THEN "ok" ELSE "not_found"

\* mockRepo.ResetToProcessing: the records it leaves.
mockResetToProcessing(records, key, newPaymentID, expiresAt) ==
    {IF r.idempotency_key = key
       THEN [r EXCEPT !.status = StatusProcessing,
                      !.payment_id = newPaymentID,
                      !.completed_at = NoTime,
                      !.expires_at = expiresAt]
       ELSE r
       : r \in records}

\* PostgresRepository.MarkComplete called alone, lines 169-179: the error it
\* returns.
MarkCompleteErr(tbl, key) ==
    IF MarkCompleteMatches(tbl, key) # {} THEN "ok"
    ELSE IF Conflicting(tbl, key) = {} THEN "not_found"
    ELSE "already_completed"

\* One InsertOrGet call made on both repositories.
CallInsertOrGet(req) ==
    /\ calls < MaxOps
    /\ calls' = calls + 1
    /\ LET paymentID == generatePaymentID(now)
           expiresAt == now + TTL
           key       == req.idempotency_key
           tbl       == UpsertTable(rows, req, paymentID, now, expiresAt)
           recs      == mockInsertOrGet(mock.records, req, paymentID, expiresAt, now)
       IN /\ rows' = tbl
          /\ mock' = [records |-> recs,
                      pg  |-> Result("ok", Returning(tbl, key),
                                     Returning(tbl, key).attempt_count = 1),
                      res |-> Result("ok", Returning(recs, key),
                                     Conflicting(mock.records, key) = {})]
    /\ UNCHANGED << now, lock, procs, mc, completes, audit, lin, dirty, metrics, snap, rp >>

\* One MarkComplete call made on both repositories.
CallMarkComplete(key, status, body) ==
    /\ calls < MaxOps
    /\ calls' = calls + 1
    /\ rows' = MarkCompleteTable(rows, key, status, body, now)
    /\ mock' = [records |-> mockMarkComplete(mock.records, key, status, body, now),
                pg  |-> Result(MarkCompleteErr(rows, key), NoRow, FALSE),
                res |-> Result(mockMarkCompleteErr(mock.records, key), NoRow, FALSE)]
    /\ UNCHANGED << now, lock, procs, mc, completes, audit, lin, dirty, metrics, snap, rp >>

\* One ResetToProcessing call made on both repositories.
CallResetToProcessing(key) ==
    /\ calls < MaxOps
    /\ calls' = calls + 1
    /\ LET paymentID == generatePaymentID(now)
           expiresAt == now + TTL
       IN /\ rows' = ResetTable(rows, key, paymentID, expiresAt, now)
          /\ mock' = [records |-> mockResetToProcessing(mock.records, key, paymentID, expiresAt),
                      pg  |-> Result("ok", NoRow, FALSE),
                      res |-> Result(mockResetToProcessingErr(mock.records, key), NoRow, FALSE)]
    /\ UNCHANGED << now, lock, procs, mc, completes, audit, lin, dirty, metrics, snap, rp >>

\* Both repositories start empty.
InitMock ==
    /\ now = 0
    /\ rows = {}
    /\ lock = [l \in LockIds |-> 0]
    /\ procs = [p \in Procs |-> IdleProc]
    /\ mc = [c \in Completers |-> IdleComplete]
    /\ calls = 0
    /\ completes = 0
    /\ audit = AuditOf({})
    /\ lin = rows
    /\ dirty = {}
    /\ metrics = NewMetrics
    /\ snap = NoSnapshot
    /\ rp = IdleReport
    /\ mock = newMockRepo

NextMock ==
    \/ Tick
    \/ \E req \in ValidRequests : CallInsertOrGet(req)
    \/ \E st \in {StatusSucceeded, StatusFailed}, b \in {NoBody, BodyCompact} :
          CallMarkComplete("A", st, b)
    \/ CallResetToProcessing("A")

SpecMock == InitMock /\ [][NextMock]_vars

\* Variant: the increment of TotalRequests is lost (a write over a stale read,
\* as without m.mu).
RecordLost(m, counter, isDuplicate, t) ==
    [m EXCEPT ![counter] = @ + 1,
              !.window = addWindow(@, isDuplicate, t)]

\* The body shared by RecordNew, RecordDuplicate, RecordRetry, RecordCached
\* and RecordMismatch: TotalRequests++, the counter of the kind ++,
\* addWindow(isDuplicate).
Record(m, counter, isDuplicate, t) ==
    [m EXCEPT !.TotalRequests = @ + 1,
              ![counter] = @ + 1,
              !.window = addWindow(@, isDuplicate, t)]

\* Metrics.RecordNew, run under m.mu.
RecordNew ==
    /\ metrics.TotalRequests < MaxEvents
    /\ metrics' = Record(metrics, "NewPayments", FALSE, now)
    /\ snap' = NoSnapshot
    /\ UNCHANGED << mock, now, rows, lock, procs, mc, calls, completes, audit, lin, dirty, rp >>

\* Metrics.RecordDuplicate, run under m.mu.
RecordDuplicate ==
    /\ metrics.TotalRequests < MaxEvents
    /\ metrics' = Record(metrics, "DuplicateBlocked", TRUE, now)
    /\ snap' = NoSnapshot
    /\ UNCHANGED << mock, now, rows, lock, procs, mc, calls, completes, audit, lin, dirty, rp >>

\* Metrics.RecordRetry, run under m.mu.
RecordRetry ==
    /\ metrics.TotalRequests < MaxEvents
    /\ metrics' = Record(metrics, "RetryAllowed", FALSE, now)
    /\ snap' = NoSnapshot
    /\ UNCHANGED << mock, now, rows, lock, procs, mc, calls, completes, audit, lin, dirty, rp >>

\* Metrics.RecordCached, run under m.mu.
RecordCached ==
    /\ metrics.TotalRequests < MaxEvents
    /\ metrics' = Record(metrics, "CachedResponses", TRUE, now)
    /\ snap' = NoSnapshot
    /\ UNCHANGED << mock, now, rows, lock, procs, mc, calls, completes, audit, lin, dirty, rp >>

\* Metrics.RecordMismatch, run under m.mu.
RecordMismatch ==
    /\ metrics.TotalRequests < MaxEvents
    /\ metrics' = Record(metrics, "ParamMismatches", TRUE, now)
    /\ snap' = NoSnapshot
    /\ UNCHANGED << mock, now, rows, lock, procs, mc, calls, completes, audit, lin, dirty, rp >>

\* Metrics.Snapshot, run under m.mu.RLock.
Snapshot ==
    /\ snap' = MetricsSnapshot(metrics, now)
    /\ UNCHANGED << mock, now, rows, lock, procs, mc, calls, completes, audit, lin, dirty,
                    metrics, rp >>

\* The monitor is created one window before clock reading 0.
InitMonitor ==
    /\ now = 0 - windowDuration
    /\ rows = {}
    /\ lock = [l \in LockIds |-> 0]
    /\ procs = [p \in Procs |-> IdleProc]
    /\ mc = [c \in Completers |-> IdleComplete]
    /\ calls = 0
    /\ completes = 0
    /\ audit = AuditOf({})
    /\ lin = rows
    /\ dirty = {}
    /\ metrics = NewMetrics
    /\ snap = NoSnapshot
    /\ rp = IdleReport
    /\ mock = newMockRepo

NextMonitor ==
    \/ Tick
    \/ RecordNew
    \/ RecordDuplicate
    \/ RecordRetry
    \/ RecordCached
    \/ RecordMismatch
    \/ Snapshot

SpecMonitor == InitMonitor /\ [][NextMonitor]_vars

\* One ProcessPayment caller against a store whose statements may fail.
NextFault ==
    \/ Tick
    \/ \E req \in ValidRequests : Call(1, req)
    \/ AcquireLock(1)
    \/ UpsertCommit(1)
    \/ InsertOrGetFail(1)
    \/ Decide(1)
    \/ Reset(1)
    \/ ResetFail(1)
    \/ Return(1)
    \/ \E c \in Completers, creq \in CompleteRequests : Complete(c, creq, MaxCompletes)
    \/ \E c \in Completers : CompleteExists(c)
    \/ \E c \in Completers : CompleteReturn(c)
    \/ Sweep

SpecFault == Init /\ [][NextFault]_vars

\* Requests whose merchant_id or customer_id holds the separator of the
\* canonical string.
SeparatorRequests ==
    {Request("A", m, c, a, "BRL") : m \in {"a", "a|b"}, c \in {"c", "b|c"}, a \in {5000, 9999}}

\* One ProcessPayment caller sending requests with separators in their fields.
NextHash ==
    \/ Tick
    \/ \E req \in SeparatorRequests : Call(1, req)
    \/ AcquireLock(1)
    \/ UpsertCommit(1)
    \/ Decide(1)
    \/ Reset(1)
    \/ Return(1)
    \/ Sweep

SpecHash == Init /\ [][NextHash]_vars

\* One ProcessPayment caller sending well-formed and malformed requests.
NextValidate ==
    \/ Tick
    \/ \E req \in AnyRequests : Call(1, req)
    \/ AcquireLock(1)
    \/ UpsertCommit(1)
    \/ Decide(1)
    \/ Reset(1)
    \/ Return(1)
    \/ Sweep

SpecValidate == Init /\ [][NextValidate]_vars

\* Completions whose failed outcome carries a response body as well: the
\* handler passes CompleteRequest.ResponseBody on whatever the status is.
PayloadRequests ==
    CompleteRequests \cup {CompleteRequest(k, StatusFailed, BodyCompact) : k \in Keys}

NextPayload ==
    \/ Tick
    \/ \E req \in ValidRequests : Call(1, req)
    \/ AcquireLock(1)
    \/ UpsertCommit(1)
    \/ Decide(1)
    \/ Reset(1)
    \/ Return(1)
    \/ \E c \in Completers, creq \in PayloadRequests : Complete(c, creq, MaxRacing)
    \/ \E c \in Completers : CompleteExists(c)
    \/ \E c \in Completers : CompleteReturn(c)
    \/ Sweep

SpecPayload == Init /\ [][NextPayload]_vars

\* withMetrics, lines 166-175: the Record* call chosen by the status the
\* handler wrote; any other status records nothing.
RecordStatus(m, status, t) ==
    CASE status = 201 -> Record(m, "NewPayments", FALSE, t)
      [] status = 200 -> Record(m, "CachedResponses", TRUE, t)
      [] status = 409 -> Record(m, "DuplicateBlocked", TRUE, t)
      [] status = 422 -> Record(m, "ParamMismatches", TRUE, t)
      [] OTHER        -> m

\* withMetrics around PaymentHandler.ProcessPayment: the handler writes the
\* status ProcessPayment returned, then the wrapper records it.
withMetrics(p) ==
    /\ procs[p].pc = "ret"
    /\ LET me  == procs[p]
           key == me.req.idempotency_key
       IN /\ metrics' = RecordStatus(metrics, me.resp.code, now)
          /\ IF me.resp.kind \notin Kinds
             THEN /\ procs' = [procs EXCEPT ![p] = IdleProc]
                  /\ UNCHANGED audit
             ELSE /\ procs' = IF me.resp.code = 201
                              THEN Disturb([procs EXCEPT ![p] = IdleProc], p, {key})
                              ELSE [procs EXCEPT ![p] = IdleProc]
                  /\ audit' = [audit EXCEPT
                                 !.count[key][me.resp.kind] = @ + 1,
                                 !.accepted[key] =
                                     IF me.resp.code = 201 /\ me.after # VoidAccept
                                     THEN [payment_id |-> me.resp.payment_id,
                                           hash       |-> Hash(me.req),
                                           expires_at |-> me.expiresAt]
                                     ELSE IF me.resp.code = 201 THEN NoAccept
                                     ELSE @]
    /\ UNCHANGED << mock, now, rows, lock, mc, calls, completes, lin, dirty, snap, rp >>

\* The service behind its HTTP wrapper: one caller at a time, any request.
NextShield ==
    \/ Tick
    \/ \E req \in AnyRequests : Call(1, req)
    \/ AcquireLock(1)
    \/ UpsertCommit(1)
    \/ Decide(1)
    \/ Reset(1)
    \/ withMetrics(1)
    \/ \E c \in Completers, creq \in CompleteRequests : Complete(c, creq, MaxCompletes)
    \/ \E c \in Completers : CompleteExists(c)
    \/ \E c \in Completers : CompleteReturn(c)
    \/ Sweep

SpecShield == Init /\ [][NextShield]_vars

\* Traffic on three keys, two of which share an advisory lock identifier, with
\* InsertOrGet free to fail at any of its statements.
KeyRequests == {Request(k, "m1", "c1", 5000, "BRL") : k \in AllKeys}

KeyCompletes ==
    {CompleteRequest(k, st, NoBody) : k \in AllKeys, st \in {StatusSucceeded, StatusFailed}}

NextKeys ==
    \/ Tick
    \/ \E p \in Procs, req \in KeyRequests : Call(p, req)
    \/ \E p \in Procs : AcquireLock(p)
    \/ \E p \in Procs : UpsertCommit(p)
    \/ \E p \in Procs : InsertOrGetFail(p)
    \/ \E p \in Procs : Decide(p)
    \/ \E p \in Procs : Reset(p)
    \/ \E p \in Procs : Return(p)
    \/ \E c \in Completers, creq \in KeyCompletes : Complete(c, creq, MaxCompletes)
    \/ \E c \in Completers : CompleteExists(c)
    \/ \E c \in Completers : CompleteReturn(c)
    \/ Sweep

SpecKeys == Init /\ [][NextKeys]_vars

\* The steps a ProcessPayment call takes on its own once it has entered
\* InsertOrGet, and those of a MarkComplete call after its UPDATE.
ProcessStep(p) ==
    AcquireLock(p) \/ UpsertCommit(p) \/ Decide(p) \/ Reset(p) \/ Return(p)

CompleteStep(c) == CompleteExists(c) \/ CompleteReturn(c)

\* The scheduling the runtime gives: a goroutine that can take its next step
\* does so, and PostgreSQL grants a released advisory lock to a transaction
\* that waits for it (the lock is the one step that others can disable, hence
\* strong fairness).  Nothing obliges InsertOrGet to fail.
Fairness ==
    /\ \A p \in Procs : SF_vars(ProcessStep(p))
    /\ WF_vars(CompleteStep(1))

\* The calls racing at one clock reading, with one MarkComplete caller.
NextLive ==
    \/ \E p \in Procs, req \in KeyRequests : Call(p, req)
    \/ \E p \in Procs : AcquireLock(p)
    \/ \E p \in Procs : UpsertCommit(p)
    \/ \E p \in Procs : InsertOrGetFail(p)
    \/ \E p \in Procs : Decide(p)
    \/ \E p \in Procs : Reset(p)
    \/ \E p \in Procs : Return(p)
    \/ \E creq \in KeyCompletes : Complete(1, creq, MaxCompletes)
    \/ CompleteExists(1)
    \/ CompleteReturn(1)
    \/ Sweep

SpecLive == Init /\ [][NextLive]_vars /\ Fairness

\* ------------------------------------------------------------------- claims

\* ProcessPayment calls about to return a response other than the validation
\* error or a store error.
AtReturn == {p \in Procs : procs[p].pc = "ret" /\ procs[p].resp.kind \in Kinds}

\* Outcomes of the given kind on key k: returned, or about to be returned.
Cnt(k, kind) ==
    audit.count[k][kind]
        + Cardinality({p \in AtReturn : /\ procs[p].req.idempotency_key = k
                                        /\ procs[p].resp.kind = kind})

\* Calls on key k that are running and have not reached their response.
Running(k) ==
    {p \in Procs : /\ procs[p].pc \in {"begin", "locked", "decide", "reset"}
                   /\ procs[p].req.idempotency_key = k}

\* Key k has seen identical requests only, no MarkComplete that returned nil,
\* no expiry and no sweep.
Quiet(k) ==
    /\ Cardinality(audit.seenHash[k]) <= 1
    /\ audit.completeOk[k][StatusSucceeded] = 0
    /\ audit.completeOk[k][StatusFailed] = 0
    /\ k \notin audit.swept
    /\ Cnt(k, "expired_reused") = 0

\* p's response comes from the record that is still the key's row.
SameRecord(p) ==
    LET r == RowOf(rows, procs[p].req.idempotency_key) IN
    /\ Conflicting(rows, procs[p].req.idempotency_key) # {}
    /\ r.first_seen_at = procs[p].rec.first_seen_at

\* C1: of the identical ProcessPayment calls made on a key that had no record,
\* with no MarkComplete and no expiry in between, at most one is answered
\* "new", no call is answered anything but "new" or "in_progress", and once
\* all of them have their answer exactly one was answered "new".
C1_SingleWinner ==
    \A k \in Keys :
        Quiet(k) =>
            /\ Cnt(k, "new") <= 1
            /\ Cnt(k, "retry") = 0
            /\ Cnt(k, "mismatch") = 0
            /\ Cnt(k, "replay") = 0
            /\ (Running(k) = {} /\ Cnt(k, "in_progress") > 0) => Cnt(k, "new") = 1

\* C1 witness: two calls that ran at the same time on a key without a record
\* are about to return, one "new" and one "in_progress".
C1_Witness ==
    /\ Quiet("A")
    /\ AtReturn = Procs
    /\ Cnt("A", "new") = 1
    /\ Cnt("A", "in_progress") = 1
    /\ RowOf(rows, "A").first_seen_at >= 0

\* C2: on every key, the "retry" acceptances do not outnumber the
\* MarkComplete(failed) calls that returned nil: each failure is retried by at
\* most one call.
C2_OneRetryPerFailure ==
    \A k \in Keys : Cnt(k, "retry") <= audit.completeOk[k][StatusFailed]

\* C3: a ProcessPayment call's outcome and payment_id are those of the run in
\* which every call executes alone, in the order of the upserts (keys on which
\* a MarkComplete, a sweep or an expiry fell inside a call are left out).
C3_SerialOutcome ==
    \A p \in AtReturn :
        ( /\ procs[p].req.idempotency_key \notin dirty
          /\ procs[p].resp.kind # "expired_reused"
          /\ procs[p].expected.kind # "expired_reused" )
        => /\ procs[p].resp.kind = procs[p].expected.kind
           /\ procs[p].resp.payment_id = procs[p].expected.payment_id

\* C4: on a key with no expiry and no sweep, the accepted calls ("new" and
\* "retry") number at most one plus the MarkComplete(failed) calls that
\* returned nil.
C4_AcceptedBound ==
    \A k \in Keys :
        (k \notin audit.swept /\ Cnt(k, "expired_reused") = 0)
        => Cnt(k, "new") + Cnt(k, "retry") <= 1 + audit.completeOk[k][StatusFailed]

\* C5: the table never holds two rows with the same idempotency_key.
C5_UniqueKey ==
    \A r1 \in rows, r2 \in rows :
        r1.idempotency_key = r2.idempotency_key => r1 = r2

\* C5 witness: an upsert met an existing row of its key (attempt_count was
\* bumped) and the key still has its one row.
C5_Witness ==
    \E r \in rows : r.attempt_count >= 2 /\ Cardinality(Conflicting(rows, r.idempotency_key)) = 1

\* C6: a call with the parameters of the acceptance it follows, made before
\* that acceptance expires and with no MarkComplete or sweep in between, is
\* answered "in_progress" with the accepted payment_id.
C6_InProgressAfterAccept ==
    \A p \in AtReturn :
        procs[p].after.hash = Hash(procs[p].req)
        => /\ procs[p].resp.kind = "in_progress"
           /\ procs[p].resp.payment_id = procs[p].after.payment_id

\* C7: a call whose upsert found a row that had already expired is answered
\* 201 "expired_reused" with its own fresh payment_id, whatever the row's
\* status and whatever the request's parameters.
C7_ExpiredReused ==
    \A p \in Procs :
        ( /\ procs[p].pc \in {"reset", "ret"}
          /\ procs[p].resp.kind # "invalid"
          /\ procs[p].existed
          /\ procs[p].rec.expires_at < procs[p].rec.last_seen_at )
        => /\ procs[p].resp.kind = "expired_reused"
           /\ procs[p].resp.code = 201
           /\ procs[p].resp.payment_id = procs[p].paymentID

\* C7 witness: a call with other parameters than the expired, succeeded row of
\* its key is about to return "expired_reused".
C7_Witness ==
    \E p \in AtReturn :
        /\ procs[p].existed
        /\ procs[p].rec.expires_at < procs[p].rec.last_seen_at
        /\ procs[p].rec.status = StatusSucceeded
        /\ procs[p].rec.request_hash # Hash(procs[p].req)
        /\ procs[p].resp.kind = "expired_reused"

\* C8: when a call is answered "retry" on a key that was never swept, its
\* ResetToProcessing has left the row in status processing carrying the
\* payment_id of the answer.
C8_RetryResets ==
    \A p \in AtReturn :
        (procs[p].resp.kind = "retry" /\ procs[p].req.idempotency_key \notin audit.swept)
        => /\ procs[p].left.status = StatusProcessing
           /\ procs[p].left.payment_id = procs[p].resp.payment_id

\* C9: a call whose parameters differ from those stored in the unexpired,
\* succeeded record of its key is answered "mismatch".
C9_MismatchAfterSuccess ==
    \A p \in AtReturn :
        ( /\ procs[p].existed
          /\ procs[p].rec.status = StatusSucceeded
          /\ procs[p].rec.request_hash # Hash(procs[p].req)
          /\ procs[p].resp.kind # "expired_reused" )
        => procs[p].resp.kind = "mismatch"

Completed(tbl, k) ==
    /\ Conflicting(tbl, k) # {}
    /\ RowOf(tbl, k).status \in {StatusSucceeded, StatusFailed}

\* C11: a MarkComplete call with a valid target status whose UPDATE meets a
\* record in succeeded or failed changes no row and does not return nil, and
\* when its second statement still finds the record it returns
\* ErrAlreadyCompleted.
C11_CompletionMonotonic ==
    [][ \A c \in Completers :
          /\ ( /\ mc[c].pc = "idle"
               /\ mc'[c].pc # "idle"
               /\ ValidStatus(mc'[c].creq.status)
               /\ Completed(rows, mc'[c].creq.key) )
             => (rows' = rows /\ mc'[c].pc = "mc_exists")
          /\ ( /\ mc[c].pc = "mc_exists"
               /\ mc'[c].pc = "mc_ret"
               /\ Conflicting(rows, mc[c].creq.key) # {} )
             => mc'[c].cres = "already_completed" ]_vars

\* C11 witness: a call asking for the other terminal status than the record's
\* is about to return ErrAlreadyCompleted, and the record has kept its status
\* and completed_at.
C11_Witness ==
    \E c \in Completers :
        /\ mc[c].pc = "mc_ret"
        /\ mc[c].cres = "already_completed"
        /\ ValidStatus(mc[c].creq.status)
        /\ Completed(rows, mc[c].creq.key)
        /\ RowOf(rows, mc[c].creq.key).status # mc[c].creq.status
        /\ RowOf(rows, mc[c].creq.key).completed_at # NoTime

\* Key k's record has not gone back to processing and has not been deleted.
NoReopen(k) ==
    /\ k \notin audit.swept
    /\ Cnt(k, "retry") = 0
    /\ Cnt(k, "expired_reused") = 0

\* Key k's record is the one the behaviour started with.
Seeded(k) ==
    /\ Conflicting(rows, k) # {}
    /\ RowOf(rows, k).first_seen_at = SeedRow.first_seen_at

\* C12: while a key's record is not reopened, at most one MarkComplete call on
\* it returns nil; of two overlapping calls on a record that was there before
\* them, one that returns nil leaves the other with ErrAlreadyCompleted and
\* the record with its own status and payload.
C12_OneCompleteWins ==
    \A k \in Keys :
        NoReopen(k) =>
            /\ audit.completeOk[k][StatusSucceeded] + audit.completeOk[k][StatusFailed] <= 1
            /\ \A c \in Completers, d \in Completers :
                  ( /\ c # d
                    /\ Seeded(k)
                    /\ mc[c].pc = "mc_ret" /\ mc[c].creq.key = k
                    /\ mc[d].pc = "mc_ret" /\ mc[d].creq.key = k
                    /\ ValidStatus(mc[d].creq.status)
                    /\ mc[c].cres = "ok" )
                  => /\ mc[d].cres = "already_completed"
                     /\ RowOf(rows, k).status = mc[c].creq.status
                     /\ RowOf(rows, k).response_body = JsonbRoundTrip(mc[c].creq.body)

\* C12 witness: two overlapping calls with different target statuses are about
\* to return, one nil and one ErrAlreadyCompleted.
C12_Witness ==
    \E c \in Completers, d \in Completers :
        /\ NoReopen("A") /\ Seeded("A")
        /\ mc[c].pc = "mc_ret" /\ mc[c].cres = "ok"
        /\ mc[c].creq = CompleteRequest("A", StatusSucceeded, BodyCompact)
        /\ mc[d].pc = "mc_ret" /\ mc[d].cres = "already_completed"
        /\ mc[d].creq.status = StatusFailed
        /\ RowOf(rows, "A").response_body = BodySpaced

\* C13: no step changes the request_hash of a key's record, and the step that
\* creates the record stores the hash of the request that is answered "new".
C13_FingerprintImmutable ==
    [][ \A k \in Keys :
          /\ (Conflicting(rows, k) # {} /\ Conflicting(rows', k) # {})
             => RowOf(rows', k).request_hash = RowOf(rows, k).request_hash
          /\ (Conflicting(rows, k) = {} /\ Conflicting(rows', k) # {})
             => \E p \in Procs :
                   /\ procs[p].pc = "locked"
                   /\ procs'[p].pc = "decide"
                   /\ procs'[p].isNew
                   /\ procs[p].req.idempotency_key = k
                   /\ RowOf(rows', k).request_hash = Hash(procs[p].req) ]_vars

\* C13 witness: a call with other parameters than the record's has been
\* accepted as "expired_reused" and the record still carries the first hash.
C13_Witness ==
    \E p \in AtReturn :
        /\ procs[p].resp.kind = "expired_reused"
        /\ procs[p].rec.request_hash # Hash(procs[p].req)
        /\ SameRecord(p)
        /\ RowOf(rows, procs[p].req.idempotency_key).request_hash = procs[p].rec.request_hash

\* ProcessPayment calls past their upsert on key k.
PastUpsert(k) ==
    {p \in Procs : /\ procs[p].pc \in {"decide", "reset", "ret"}
                   /\ procs[p].rec # NoRow
                   /\ procs[p].req.idempotency_key = k}

\* C14 as stated: the attempt_count of a key's record is never below a value
\* an earlier call on the key was handed, sweeps included.
C14_AttemptNeverDrops ==
    \A k \in Keys : \A p \in PastUpsert(k) :
        Conflicting(rows, k) # {} => RowOf(rows, k).attempt_count >= procs[p].rec.attempt_count

\* C14: attempt_count is at least 1, and no step lowers the attempt_count of a
\* record that is in the table before and after it (a record inserted after a
\* sweep starts again at 1).
C14_AttemptMonotonic ==
    /\ [](\A r \in rows : r.attempt_count >= 1)
    /\ [][ \A k \in Keys :
             (Conflicting(rows, k) # {} /\ Conflicting(rows', k) # {})
             => RowOf(rows', k).attempt_count >= RowOf(rows, k).attempt_count ]_vars

\* C14 witness: a key was swept and inserted again; its record counts 1 while
\* a call on the deleted record was handed a higher count.
C14_Witness ==
    \E p \in PastUpsert("A") :
        /\ "A" \in audit.swept
        /\ Conflicting(rows, "A") # {}
        /\ RowOf(rows, "A").attempt_count = 1
        /\ procs[p].rec.attempt_count >= 2

\* Upserts committed on key k: calls answered, or past their upsert.
Upserts(k) ==
    audit.count[k]["new"] + audit.count[k]["expired_reused"] + audit.count[k]["retry"]
        + audit.count[k]["in_progress"] + audit.count[k]["mismatch"]
        + audit.count[k]["replay"]
        + Cardinality({p \in PastUpsert(k) : procs[p].pc # "ret"})
        + Cardinality({p \in AtReturn : procs[p].req.idempotency_key = k /\ procs[p].rec # NoRow})

\* C15: on a key that was never swept, attempt_count is the number of upserts
\* committed on it; the calls past their upsert were handed different counts,
\* none above that number, and a response carries the count the call was handed.
C15_ExactAttempts ==
    \A k \in Keys :
        k \notin audit.swept =>
            /\ Conflicting(rows, k) # {} => RowOf(rows, k).attempt_count = Upserts(k)
            /\ Conflicting(rows, k) = {} => Upserts(k) = 0
            /\ \A p \in PastUpsert(k) :
                  /\ procs[p].rec.attempt_count >= 1
                  /\ procs[p].rec.attempt_count <= Upserts(k)
                  /\ (procs[p].pc = "ret" /\ procs[p].resp.kind \in Kinds \ {"mismatch"})
                     => procs[p].resp.attempt_count = procs[p].rec.attempt_count
                  /\ \A q \in PastUpsert(k) :
                        p # q => procs[p].rec.attempt_count # procs[q].rec.attempt_count

\* C15 witness: the third call on a key, one with other parameters, is about
\* to return "mismatch" and the record counts 3.
C15_Witness ==
    \E p \in AtReturn :
        /\ "A" \notin audit.swept
        /\ procs[p].resp.kind = "mismatch"
        /\ procs[p].rec.attempt_count = 3
        /\ RowOf(rows, "A").attempt_count = 3

\* ProcessPayment calls on key k that returned a response other than an error
\* of validation or of the store.
Answered(k) ==
    audit.count[k]["new"] + audit.count[k]["expired_reused"] + audit.count[k]["retry"]
        + audit.count[k]["in_progress"] + audit.count[k]["mismatch"]
        + audit.count[k]["replay"]

\* C16: when the only caller is about to return Unavailable on a key that was
\* never swept, the key's record counts the calls that were answered and no
\* more (no record when none was): the failed call left no attempt_count bump.
C16_UnavailableNoTrace ==
    \A p \in Procs :
        LET k == procs[p].req.idempotency_key IN
        (procs[p].pc = "ret" /\ procs[p].resp = Unavailable /\ k \notin audit.swept)
        => /\ (Conflicting(rows, k) = {}) = (Answered(k) = 0)
           /\ Conflicting(rows, k) # {} => RowOf(rows, k).attempt_count = Answered(k)

\* The request has an empty string field or a negative amount.
Malformed(req) ==
    \/ req.idempotency_key = ""
    \/ req.merchant_id = ""
    \/ req.customer_id = ""
    \/ req.currency = ""
    \/ req.amount < 0

\* C17: a call with a malformed request goes straight to its 422 response
\* without a store operation, a call with any other request (amount 0
\* included) enters InsertOrGet, neither the rejection nor its return changes
\* the table, and no record carries a malformed request.
C17_InvalidRequestUntouched ==
    /\ [](/\ \A r \in rows : r.request_hash \in {Hash(q) : q \in AnyRequests \ {q \in AnyRequests : Malformed(q)}}
          /\ \A p \in Procs :
                (procs[p].pc # "idle" /\ Malformed(procs[p].req))
                => /\ procs[p].pc = "ret"
                   /\ procs[p].resp.code = 422
                   /\ procs[p].resp.kind = "invalid"
                   /\ procs[p].rec = NoRow)
    /\ [][ \A p \in Procs :
             /\ (procs[p].pc = "idle" /\ procs'[p].pc # "idle")
                => IF Malformed(procs'[p].req)
                   THEN procs'[p].pc = "ret" /\ rows' = rows /\ lock' = lock
                   ELSE procs'[p].pc = "begin"
             /\ (procs[p].pc = "ret" /\ procs[p].resp.kind = "invalid" /\ procs'[p].pc = "idle")
                => rows' = rows /\ lock' = lock /\ audit' = audit ]_vars

\* C17 witness: a request with an empty currency is about to be answered 422
\* while the table holds, untouched, the record a request with amount 0 created.
C17_Witness ==
    \E p \in Procs :
        /\ procs[p].pc = "ret"
        /\ procs[p].resp.kind = "invalid"
        /\ procs[p].req = Request("A", "m1", "c1", 5000, "")
        /\ \E r \in rows : r.amount = 0 /\ r.attempt_count = 1 /\ r.last_seen_at = r.first_seen_at

\* C18: a MarkComplete call with a target status other than succeeded or
\* failed goes straight to returning InvalidStatus: the step changes neither
\* the table nor the observations, and the call never reaches the statement
\* that asks whether the key exists.
C18_InvalidStatusFirst ==
    /\ [](\A c \in Completers :
             (mc[c].pc # "idle" /\ mc[c].creq.status \notin {StatusSucceeded, StatusFailed})
             => mc[c].pc = "mc_ret" /\ mc[c].cres = "invalid_status")
    /\ [][ \A c \in Completers :
             (/\ mc[c].pc = "idle"
              /\ mc'[c].pc # "idle"
              /\ mc'[c].creq.status \notin {StatusSucceeded, StatusFailed})
             => rows' = rows /\ audit' = audit /\ procs' = procs ]_vars

\* C18 witness: complete(A, pending) is about to return InvalidStatus while
\* key A has no record.
C18_Witness ==
    \E c \in Completers :
        /\ mc[c].pc = "mc_ret"
        /\ mc[c].creq.status = "pending"
        /\ mc[c].cres = "invalid_status"
        /\ Conflicting(rows, mc[c].creq.key) = {}

\* C19: with one caller, when a call that was handed a failed record is about
\* to return 201 with payment_id p, its ResetToProcessing has left the key's
\* record in processing carrying p, whether or not a sweep ran during the call.
C19_SweepBenign ==
    \A p \in AtReturn :
        (procs[p].resp.code = 201 /\ procs[p].existed /\ procs[p].rec.status = StatusFailed)
        => /\ procs[p].left # NoRow
           /\ procs[p].left.status = StatusProcessing
           /\ procs[p].left.payment_id = procs[p].resp.payment_id

\* C20: a sweep deletes the records whose expires_at is before the clock and
\* no other, leaves every other record as it was, returns the number it
\* deleted, and leaves nothing for a second sweep at the same instant; a
\* sweep that finds no such record changes nothing and returns 0.
C20_SweepExact ==
    [][ Sweep =>
          /\ rows \ rows' = {r \in rows : r.expires_at < now}
          /\ rows' \subseteq rows
          /\ audit'.deleted = Cardinality({r \in rows : r.expires_at < now})
          /\ {r \in rows' : r.expires_at < now'} = {}
          /\ ({r \in rows : r.expires_at < now} = {}) => (rows' = rows /\ audit'.deleted = 0) ]_vars

\* C20 witness: a sweep has deleted the one expired record and returned 1.
C20_Witness ==
    /\ audit.deleted = 1
    /\ "A" \in audit.swept
    /\ rows = {}

\* The request and the record agree on merchant_id, customer_id, amount and
\* currency.
SameParams(rec, req) ==
    /\ rec.merchant_id = req.merchant_id
    /\ rec.customer_id = req.customer_id
    /\ rec.amount = req.amount
    /\ rec.currency = req.currency

\* C21: the fingerprint of a request equals the fingerprint stored in the
\* record of its key exactly when the request and the record agree on
\* merchant_id, customer_id, amount and currency, fields holding the
\* separator included.
C21_FingerprintSemantic ==
    \A p \in PastUpsert("A") :
        (procs[p].rec.request_hash = Hash(procs[p].req)) <=> SameParams(procs[p].rec, procs[p].req)

\* The records a report for (merchantID, from, to) is about: the merchant's
\* rows first seen in [from, to].
InRange(tbl, merchantID, from, to) ==
    {r \in tbl : r.merchant_id = merchantID /\ from <= r.first_seen_at /\ r.first_seen_at <= to}

\* The members of a sequence.
Range(q) == {q[i] : i \in DOMAIN q}

\* C22: the suspicious_keys of a report list, each once, the merchant's
\* in-range records with attempt_count above 3, reduced to key, attempt_count,
\* amount, currency, status, first_seen_at and last_seen_at.
C22_SuspiciousKeys ==
    rp.pc = "ret" =>
        LET S == {r \in InRange(rows, rp.merchantID, rp.from, rp.to) : r.attempt_count >= 4}
            q == rp.report.suspicious_keys
        IN /\ Len(q) = Cardinality(S)
           /\ Range(q) = {[ idempotency_key |-> r.idempotency_key,
                            attempt_count   |-> r.attempt_count,
                            amount          |-> r.amount,
                            currency        |-> r.currency,
                            status          |-> r.status,
                            first_seen_at   |-> r.first_seen_at,
                            last_seen_at    |-> r.last_seen_at ] : r \in S}

\* C22 witness: a report about a table holding an in-range record with
\* attempt_count 3 and one with attempt_count 4 lists the second only.
C22_Witness ==
    /\ rp.pc = "ret"
    /\ Len(rp.report.suspicious_keys) = 1
    /\ \E r \in InRange(rows, rp.merchantID, rp.from, rp.to) : r.attempt_count = 3
    /\ \E r \in rows : r.attempt_count = 4 /\ r.merchant_id # rp.merchantID

\* Sum of amount x (attempt_count - 1) over a set of records.
RECURSIVE ExtraAmount(_)
ExtraAmount(S) ==
    IF S = {} THEN 0
    ELSE LET r == CHOOSE x \in S : TRUE
         IN r.amount * r.attempt_count - r.amount + ExtraAmount(S \ {r})

\* Sum of the values of a map from currencies to amounts.
RECURSIVE MapTotal(_)
MapTotal(f) ==
    IF DOMAIN f = {} THEN 0
    ELSE LET c == CHOOSE x \in DOMAIN f : TRUE
         IN f[c] + MapTotal([x \in DOMAIN f \ {c} |-> f[x]])

\* C23: the amount_at_risk of a report is the sum of amount x (attempt_count
\* - 1) over the merchant's in-range records, currency_breakdown gives for
\* each currency that sum over the records in the currency (a currency it
\* does not hold reads as 0), and its values add up to amount_at_risk.
C23_AmountAtRisk ==
    rp.pc = "ret" =>
        LET S  == InRange(rows, rp.merchantID, rp.from, rp.to)
            cb == rp.report.currency_breakdown
        IN /\ rp.report.amount_at_risk = ExtraAmount(S)
           /\ \A c \in {"BRL", "USD"} :
                 (IF c \in DOMAIN cb THEN cb[c] ELSE 0) = ExtraAmount({r \in S : r.currency = c})
           /\ DOMAIN cb \subseteq {r.currency : r \in S}
           /\ MapTotal(cb) = rp.report.amount_at_risk

\* C23 witness: a report over three in-range records, one seen once, two
\* seen more often in different currencies.
C23_Witness ==
    /\ rp.pc = "ret"
    /\ Cardinality(InRange(rows, rp.merchantID, rp.from, rp.to)) = 3
    /\ \E r \in rows : r.attempt_count = 1
    /\ DOMAIN rp.report.currency_breakdown = {"BRL", "USD"}
    /\ rp.report.amount_at_risk = 5000 * 3 + 5000 * 2

\* C24: a snapshot reports an anomaly exactly when, among the events less
\* than a window older than its clock reading, duplicates x 100 > 20 x events; its rate is zero for an empty
\* window, and its counts are those of the events later than the cutoff.
C24_StrictAnomaly ==
    snap # NoSnapshot =>
        LET n == Cardinality({i \in DOMAIN metrics.window :
                                 metrics.window[i].ts + windowDuration > snap.at})
            d == Cardinality({i \in DOMAIN metrics.window :
                                 /\ metrics.window[i].ts + windowDuration > snap.at
                                 /\ metrics.window[i].isDuplicate})
        IN /\ snap.WindowRequests = n
           /\ snap.WindowDuplicates = d
           /\ snap.AnomalyDetected <=> (d * 100 > 20 * n)
           /\ n = 0 => (snap.WindowDupRate = FloatZero /\ ~snap.AnomalyDetected)

\* C24 witness: a snapshot of a window holding five events in range, one of
\* them a duplicate (exactly 20%): the rate is 20.0 and there is no anomaly.
C24_Witness ==
    /\ snap # NoSnapshot
    /\ snap.WindowRequests = 5
    /\ snap.WindowDuplicates = 1
    /\ ~snap.AnomalyDetected
    /\ snap.WindowDupRate = FloatOfInt(20)

\* C25: when a call is about to return Accepted{expired_reused} with
\* payment_id p, its ResetToProcessing has left the key's record in processing
\* with payment_id p, no completed_at and the call's expiry, whatever the
\* status of the expired record was.
C25_ExpiredReuseEffect ==
    \A p \in AtReturn :
        procs[p].resp.kind = "expired_reused"
        => /\ procs[p].left.status = StatusProcessing
           /\ procs[p].left.payment_id = procs[p].resp.payment_id
           /\ procs[p].left.completed_at = NoTime
           /\ procs[p].left.expires_at = procs[p].expiresAt

\* C26: when MarkComplete settles on its answer after an UPDATE that changed
\* no row, it answers not_found only if the key has no record, and
\* already_completed only if the key has a record that is not in processing
\* or that some MarkComplete call has completed before.
C26_CompleteAtomic ==
    [][ \A c \in Completers :
          (mc[c].pc = "mc_exists" /\ mc'[c].pc = "mc_ret")
          => LET k == mc[c].creq.key IN
             /\ mc'[c].cres = "not_found" => Conflicting(rows, k) = {}
             /\ mc'[c].cres = "already_completed"
                => /\ Conflicting(rows, k) # {}
                   /\ \/ RowOf(rows, k).status # StatusProcessing
                      \/ audit.completeOk[k][StatusSucceeded] + audit.completeOk[k][StatusFailed] > 0
       ]_vars

\* C27: every record that carries a response body has status succeeded.
C27_PayloadOnlySucceeded ==
    \A r \in rows : r.response_body # NoBody => r.status = StatusSucceeded

\* C28: every record expires strictly after it was first seen.
C28_ExpiresAfterFirstSeen ==
    \A r \in rows : r.expires_at > r.first_seen_at

\* C29: a record in processing has no completed_at, and a record that is
\* succeeded or failed has one.
C29_CompletedAtMatchesStatus ==
    \A r \in rows :
        /\ r.status = StatusProcessing => r.completed_at = NoTime
        /\ r.status \in {StatusSucceeded, StatusFailed} => r.completed_at # NoTime

\* A failed record has been reset by an accepted retry and is in processing
\* again, without a completed_at.
C29_Witness ==
    \E p \in AtReturn :
        /\ procs[p].resp.kind = "retry"
        /\ audit.completeOk[procs[p].req.idempotency_key][StatusFailed] > 0
        /\ \E r \in rows : /\ r.idempotency_key = procs[p].req.idempotency_key
                           /\ r.status = StatusProcessing
                           /\ r.payment_id = procs[p].resp.payment_id
                           /\ r.completed_at = NoTime

\* The fields of a record that the upsert of InsertOrGet must leave alone on a
\* key that already has a record.
SameButSeen(old, new) ==
    /\ new.idempotency_key = old.idempotency_key
    /\ new.status = old.status
    /\ new.payment_id = old.payment_id
    /\ new.request_hash = old.request_hash
    /\ new.first_seen_at = old.first_seen_at
    /\ new.expires_at = old.expires_at
    /\ new.completed_at = old.completed_at
    /\ new.response_body = old.response_body
    /\ new.merchant_id = old.merchant_id
    /\ new.customer_id = old.customer_id
    /\ new.amount = old.amount
    /\ new.currency = old.currency

\* C30: the upsert of InsertOrGet on a key that already has a record changes
\* only last_seen_at (to the call's clock reading) and attempt_count (by one)
\* of that record and nothing of any other record, and InsertOrGet returns
\* isNew = TRUE exactly when the key had no record before.
C30_UpsertFrame ==
    [][ \A p \in Procs :
          (procs[p].pc = "locked" /\ procs'[p].pc = "decide")
          => LET k == procs[p].req.idempotency_key IN
             /\ procs'[p].isNew = (Conflicting(rows, k) = {})
             /\ \A r \in rows : r.idempotency_key # k => r \in rows'
             /\ Conflicting(rows, k) # {}
                => /\ Cardinality(rows') = Cardinality(rows)
                   /\ SameButSeen(RowOf(rows, k), RowOf(rows', k))
                   /\ RowOf(rows', k).last_seen_at = now
                   /\ RowOf(rows', k).attempt_count = RowOf(rows, k).attempt_count + 1
                   /\ procs'[p].rec = RowOf(rows', k)
       ]_vars

\* A call whose parameters, payment id and expiry all differ from the stored
\* record's has just bumped that record.
C30_Witness ==
    \E p \in Procs :
        /\ procs[p].pc = "decide"
        /\ procs[p].existed
        /\ ~procs[p].isNew
        /\ Hash(procs[p].req) # procs[p].rec.request_hash
        /\ procs[p].paymentID # procs[p].rec.payment_id
        /\ procs[p].expiresAt # procs[p].rec.expires_at
        /\ procs[p].rec.attempt_count >= 2
        /\ procs[p].rec \in rows

\* C31: ResetToProcessing changes a record only if its status is failed, and
\* then sets status processing, the call's payment id, no completed_at, the
\* call's expiry and last_seen_at, leaving first_seen_at, request_hash,
\* attempt_count, merchant_id, customer_id, amount and currency as they were;
\* on a missing or non-failed record it changes nothing; it returns no error.
C31_ResetFrame ==
    [][ \A p \in Procs :
          (procs[p].pc = "reset" /\ procs'[p].pc = "ret")
          => LET k   == procs[p].rec.idempotency_key
                 old == RowOf(rows, k)
                 new == RowOf(rows', k)
             IN /\ procs'[p].resp = procs[p].resp
                /\ procs[p].resp.code = 201
                /\ \A r \in rows : r.idempotency_key # k => r \in rows'
                /\ IF Conflicting(rows, k) # {} /\ old.status = StatusFailed
                   THEN /\ Cardinality(rows') = Cardinality(rows)
                        /\ new.status = StatusProcessing
                        /\ new.payment_id = procs[p].paymentID
                        /\ new.completed_at = NoTime
                        /\ new.expires_at = procs[p].expiresAt
                        /\ new.last_seen_at = now
                        /\ new.first_seen_at = old.first_seen_at
                        /\ new.request_hash = old.request_hash
                        /\ new.attempt_count = old.attempt_count
                        /\ new.merchant_id = old.merchant_id
                        /\ new.customer_id = old.customer_id
                        /\ new.amount = old.amount
                        /\ new.currency = old.currency
                   ELSE rows' = rows
       ]_vars

\* A ResetToProcessing has just reset a failed record that was first seen at
\* an earlier clock reading and had been attempted more than once.
C31_Witness ==
    \E p \in AtReturn :
        /\ procs[p].resp.kind = "retry"
        /\ procs[p].rec.status = StatusFailed
        /\ procs[p].left.status = StatusProcessing
        /\ procs[p].left.payment_id = procs[p].paymentID
        /\ procs[p].left.payment_id # procs[p].rec.payment_id
        /\ procs[p].left.attempt_count >= 2
        /\ procs[p].left.first_seen_at < procs[p].left.last_seen_at
        /\ procs[p].left \in rows

\* ProcessPayment calls that have generated their payment id and not returned.
Generated == {p \in Procs : procs[p].pc \in {"begin", "locked", "decide", "reset"}}

\* C33: no two ProcessPayment calls in progress have generated the same
\* payment id.
C33_PaymentIdUnique ==
    \A p \in Generated : \A q \in Generated :
        p # q => procs[p].paymentID # procs[q].paymentID

\* C35: a ProcessPayment call that returns an outcome (anything but a store
\* error) adds exactly one entry to the window, stamped with the clock reading,
\* and the entry is marked duplicate exactly when the outcome is in_progress,
\* mismatch or replay.
C35_MonitorClassification ==
    [][ \A p \in Procs :
          (procs[p].pc = "ret" /\ procs'[p].pc = "idle" /\ procs[p].resp.code # 500)
          => /\ metrics'.TotalRequests = metrics.TotalRequests + 1
             /\ metrics'.window # << >>
             /\ LET last == metrics'.window[Len(metrics'.window)]
                    kept == SubSeq(metrics'.window, 1, Len(metrics'.window) - 1)
                IN /\ last.ts = now
                   /\ kept = pruneWindow(metrics.window, now)
                   /\ last.isDuplicate
                        = (procs[p].resp.kind \in {"in_progress", "mismatch", "replay"})
       ]_vars

\* The InsertOrGet transactions between the advisory lock and COMMIT/ROLLBACK.
Holding == {p \in Procs : procs[p].pc = "locked"}

\* C32: no two InsertOrGet transactions for one key (nor for two keys with one
\* lock identifier) are between the advisory lock and commit or rollback at the
\* same time; such a transaction holds its key's lock, and a lock is held only
\* by such a transaction, so not by a call that has committed, failed or
\* returned.
C32_LockExclusive ==
    /\ \A p \in Holding : \A q \in Holding :
          p # q => advisoryLockKey(procs[p].req.idempotency_key)
                     # advisoryLockKey(procs[q].req.idempotency_key)
    /\ \A p \in Holding : lock[advisoryLockKey(procs[p].req.idempotency_key)] = p
    /\ \A id \in LockIds :
          lock[id] # 0 => /\ lock[id] \in Holding
                          /\ advisoryLockKey(procs[lock[id]].req.idempotency_key) = id

\* One call holds the lock of a key while another call for the same key waits
\* for it.
C32_Witness ==
    \E p \in Holding : \E q \in Procs :
        /\ procs[q].pc = "begin"
        /\ procs[q].req.idempotency_key = procs[p].req.idempotency_key

\* C34: the record of a key changes only in a step of ProcessPayment or
\* MarkComplete for that key, or when the sweep deletes it expired; and what
\* InsertOrGet and MarkComplete return for a key is decided by that key's
\* record alone: isNew exactly when the key had no record, the returned record
\* the key's own, nil from MarkComplete exactly when the key's record was in
\* processing, and ErrKeyNotFound exactly when the key has no record.
C34_KeyIndependence ==
    [][ \A k \in AllKeys :
          LET upserting == {p \in Procs : /\ procs[p].req.idempotency_key = k
                                          /\ procs[p].pc = "locked"
                                          /\ procs'[p].pc = "decide"}
              resetting == {p \in Procs : /\ procs[p].req.idempotency_key = k
                                          /\ procs[p].pc = "reset"
                                          /\ procs'[p].pc = "ret"}
              updating  == {c \in Completers : /\ mc[c].pc = "idle"
                                               /\ mc'[c].pc # "idle"
                                               /\ mc'[c].creq.key = k
                                               /\ ValidStatus(mc'[c].creq.status)}
              asking    == {c \in Completers : /\ mc[c].pc = "mc_exists"
                                               /\ mc'[c].pc = "mc_ret"
                                               /\ mc[c].creq.key = k}
          IN /\ Conflicting(rows', k) # Conflicting(rows, k)
                => \/ upserting \cup resetting # {}
                   \/ updating # {}
                   \/ /\ Conflicting(rows', k) = {}
                      /\ RowOf(rows, k).expires_at < now
             /\ \A p \in upserting :
                   /\ procs'[p].rec.idempotency_key = k
                   /\ procs'[p].rec \in rows'
                   /\ procs'[p].isNew = (Conflicting(rows, k) = {})
                   /\ Conflicting(rows, k) # {}
                      => SameButSeen(RowOf(rows, k), procs'[p].rec)
             /\ \A c \in updating :
                   (mc'[c].cres = "ok")
                     = (Conflicting(rows, k) # {} /\ RowOf(rows, k).status = StatusProcessing)
             /\ \A c \in asking :
                   (mc'[c].cres = "not_found") = (Conflicting(rows, k) = {})
       ]_vars

\* A call for one key is answered Accepted{new} while the other key with the
\* same lock identifier has a record of its own.
C34_Witness ==
    \E p \in AtReturn :
        /\ procs[p].req.idempotency_key = KeyY
        /\ procs[p].resp.kind = "new"
        /\ Conflicting(rows, KeyX) # {}
        /\ Conflicting(rows, KeyY) # {}
        /\ advisoryLockKey(KeyX) = advisoryLockKey(KeyY)

\* The sum of the five category counters of a Metrics value or a snapshot.
Categorised(m) ==
    m.NewPayments + m.DuplicateBlocked + m.RetryAllowed
        + m.CachedResponses + m.ParamMismatches

\* C36: under any interleaving of Record* calls and clock ticks no event is
\* lost: a Record* call raises TotalRequests and one category counter by one
\* and appends its entry behind the entries of the earlier calls, of which
\* only those older than the window are dropped; TotalRequests is the sum of
\* the category counters; until a full window has passed since the monitor's
\* creation the window holds one entry per event; and a snapshot shows
\* counters and a window in which every event counts wholly or not at all.
C36_NoEventLost ==
    /\ [](/\ metrics.TotalRequests = Categorised(metrics)
          /\ Len(metrics.window) <= metrics.TotalRequests
          /\ now <= 0 => Len(metrics.window) = metrics.TotalRequests
          /\ \A i \in 1..Len(metrics.window) : \A j \in 1..Len(metrics.window) :
                i < j => metrics.window[i].ts <= metrics.window[j].ts
          /\ snap.taken
             => /\ snap.TotalRequests = Categorised(snap)
                /\ snap.WindowRequests <= snap.TotalRequests
                /\ snap.WindowDuplicates
                     <= snap.DuplicateBlocked + snap.CachedResponses + snap.ParamMismatches
                /\ snap.WindowRequests - snap.WindowDuplicates
                     <= snap.NewPayments + snap.RetryAllowed)
    /\ [][ metrics' # metrics
           => /\ metrics'.TotalRequests = metrics.TotalRequests + 1
              /\ Categorised(metrics') = Categorised(metrics) + 1
              /\ metrics'.window # << >>
              /\ metrics'.window[Len(metrics'.window)].ts = now
              /\ SubSeq(metrics'.window, 1, Len(metrics'.window) - 1)
                   = pruneWindow(metrics.window, now)
       ]_vars

\* A snapshot taken after MaxEvents events, at least one of every category,
\* all of them still in the window.
C36_Witness ==
    /\ snap.taken
    /\ snap.TotalRequests = MaxEvents
    /\ snap.NewPayments > 0
    /\ snap.DuplicateBlocked > 0
    /\ snap.RetryAllowed > 0
    /\ snap.CachedResponses > 0
    /\ snap.ParamMismatches > 0
    /\ snap.WindowRequests = MaxEvents
    /\ Len(metrics.window) = MaxEvents

\* The status changes a record may undergo.
StatusGraph ==
    { << StatusProcessing, StatusSucceeded >>,
      << StatusProcessing, StatusFailed >>,
      << StatusFailed, StatusProcessing >> }

C38_Termination ==
    /\ \A p \in Procs :
          (procs[p].pc \in {"begin", "locked", "decide", "reset"}) ~> (procs[p].pc = "ret")
    /\ (mc[1].pc = "mc_exists") ~> (mc[1].pc = "mc_ret")
    /\ [](\A p \in Procs : Cardinality({id \in LockIds : lock[id] = p}) <= 1)

\* Two calls for different keys with one lock identifier: one holds the lock
\* and the other waits for it.
C38_Witness ==
    \E p \in Holding : \E q \in Procs :
        /\ procs[q].pc = "begin"
        /\ procs[q].req.idempotency_key # procs[p].req.idempotency_key
        /\ advisoryLockKey(procs[q].req.idempotency_key)
             = advisoryLockKey(procs[p].req.idempotency_key)

\* Sum of attempt_count - 1 over a list of records.
RECURSIVE ExtraAttempts(_)
ExtraAttempts(duplicates) ==
    IF duplicates = << >> THEN 0
    ELSE (Head(duplicates).attempt_count - 1) + ExtraAttempts(Tail(duplicates))

\* C39: the duplicate_count of a report about to be returned is the sum of
\* attempt_count - 1 over the records its amount_at_risk was computed from, and
\* is not negative.
C39_ReportOneState ==
    rp.pc = "ret"
    => /\ rp.report.duplicate_count = ExtraAttempts(rp.duplicates)
       /\ rp.report.duplicate_count >= 0
       /\ rp.report.duplicate_count = rp.report.total_requests - rp.report.unique_payments

\* A mockRepo record as PostgreSQL would hand it back: response_body read
\* from a JSONB column.
AsStored(r) == [r EXCEPT !.response_body = JsonbRoundTrip(@)]

\* C40: after every sequence of InsertOrGet, MarkComplete and
\* ResetToProcessing calls made on both, mockRepo and PostgresRepository have
\* returned the same error, record and isNew from the last call, and hold the
\* same records.
C40_MockFidelity ==
    /\ mock.res.err = mock.pg.err
    /\ mock.res.isNew = mock.pg.isNew
    /\ AsStored(mock.res.rec) = mock.pg.rec
    /\ {AsStored(r) : r \in mock.records} = rows

====
